---- MODULE Spec2Model ----
(***************************************************************************)
(* Verification model of the machine-coding repository:                    *)
(*   - multilevel-cache-design: LFUStrategy (eviction_strategy.py),        *)
(*     CacheLevel (cache_level.py), MultiLevelCache (multilevel_cache.py)  *)
(*   - restaurant-booking-system-design: Venue (models.py) and             *)
(*     BookingSystem (booking_system.py) under threads                     *)
(*   - task-management-system-design: TaskManager (task_manager.py) over   *)
(*     Database (models.py) and SessionManager (auth.py)                   *)
(* The specifications share the module: SpecLFU drives one LFUStrategy,    *)
(* SpecCache drives one MultiLevelCache, SpecCacheThreads runs threads     *)
(* that call write, SpecBooking runs threads that call book_table,         *)
(* SpecBookingOps adds update_time_slots and the venue-table operations    *)
(* (FairBookingOps with fair scheduling), SpecTasks drives TaskManager.    *)
(* Each specification keeps the other parts idle.                          *)
(***************************************************************************)
EXTENDS Integers, Sequences, FiniteSets, TLC

VARIABLES
    strategy,      \* SpecLFU: the LFUStrategy object (capacity, key_value, key_freq, freq_keys, min_freq)
    lfu_op,        \* SpecLFU: the last call on the strategy and what it returned
    touch_order,   \* SpecLFU (history): resident keys, least recently inserted/bumped first
    put_hist,      \* SpecLFU (history): last value put per key while only puts/gets of <= capacity keys happened
    levels,        \* SpecCache: MultiLevelCache.levels, a sequence of LFUStrategy objects
    max_levels,    \* SpecCache: MultiLevelCache.max_levels
    capacities,    \* SpecCache: MultiLevelCache.capacities
    cache_op,      \* SpecCache: the last call on the cache and what it returned / raised
    last_written,  \* SpecCache (history): per key some level holds, the value of its latest write
    wpc,           \* SpecCacheThreads: per thread, its position inside MultiLevelCache.write
    wlocal,        \* SpecCacheThreads: per thread, the locals of its running write
    wcalls,        \* SpecCacheThreads: the number of write calls made so far
    availability,  \* SpecBooking: Venue.availability, slot -> tables left (a dict: partial)
    slot_locks,    \* SpecBooking: Venue._slot_locks, slot -> lock object (a dict: partial)
    lock_holder,   \* SpecBooking: per created threading.Lock object, the thread holding it or 0
    venue_lock,    \* SpecBooking: holder of Venue._lock (RLock), 0 when free
    venues_lock,   \* SpecBooking: holder of BookingSystem._venues_lock (RLock), 0 when free
    bookings,      \* SpecBooking: BookingSystem._bookings in insertion order (slot of each booking)
    pc,            \* SpecBooking: per thread, its position inside book_table
    call,          \* SpecBooking: per thread, the arguments and locals of its running call
    result,        \* SpecBooking: per thread, how its last finished call ended ("none" while one runs)
    initial_tables,\* SpecBooking (history): tables each slot was configured with
    succeeded,     \* SpecBooking (history): per slot, the book_table calls that returned a booking
    updates,       \* SpecBookingOps: the number of update_time_slots calls made so far
    calls_left,    \* FairBookingOps: per thread, the calls it still makes (a dict; no entry: no limit)
    tasks,         \* SpecTasks: Database.tasks, task id -> Task (a dict: partial)
    next_id,       \* SpecTasks: the id the next created Task gets (ids are never reused)
    current_user,  \* SpecTasks: SessionManager.current_user
    task_op        \* SpecTasks: the last TaskManager call and what it returned

lfuVars     == <<strategy, lfu_op, touch_order, put_hist>>
cacheVars   == <<levels, max_levels, capacities, cache_op, last_written, wpc, wlocal,
                 wcalls>>
bookingVars == <<availability, slot_locks, lock_holder, venue_lock, venues_lock,
                 bookings, pc, call, result, initial_tables, succeeded, updates,
                 calls_left>>
taskVars    == <<tasks, next_id, current_user, task_op>>
vars        == <<lfuVars, cacheVars, bookingVars, taskVars>>

(***************************************************************************)
(* Bounds of the model.                                                    *)
(***************************************************************************)
MaxCapacity == 3      \* SpecLFU: capacities 0..MaxCapacity
MaxFreq     == 3      \* SpecLFU: a key is bumped only while its frequency is below MaxFreq

Keys   == {"a", "b", "c"}
Values == {"1", "2"}
None   == "None"      \* Python's None as a return value
NoItem == <<>>        \* Python's None where a (key, value) tuple is expected

(***************************************************************************)
(* Dictionaries are functions with a finite domain.                        *)
(***************************************************************************)
DictSet(d, k, v) == [x \in (DOMAIN d) \cup {k} |-> IF x = k THEN v ELSE d[x]]
DictDel(d, k)    == [x \in (DOMAIN d) \ {k} |-> d[x]]
EmptyDict        == [x \in {} |-> 0]
\* an OrderedDict used as an ordered set of keys: a sequence without repetition
OrdDel(od, k)    == SelectSeq(od, LAMBDA x : x # k)
OrdHas(od, k)    == \E i \in 1..Len(od) : od[i] = k
MinOf(S)         == CHOOSE x \in S : \A y \in S : x <= y

(***************************************************************************)
(* LFUStrategy                                                             *)
(***************************************************************************)
NewLFU(cap) ==
    [capacity |-> cap, key_value |-> EmptyDict, key_freq |-> EmptyDict,
     freq_keys |-> EmptyDict, min_freq |-> 0]

\* freq_keys is a defaultdict(OrderedDict): reading a missing frequency yields an empty bucket
BucketOf(fk, freq) == IF freq \in DOMAIN fk THEN fk[freq] ELSE <<>>

\* mutant: the emptied bucket is left in freq_keys
DropEmptyBucketKept(fk, freq) == fk
\* "if not self.freq_keys[freq]: del self.freq_keys[freq]"
DropEmptyBucket(fk, freq) ==
    IF BucketOf(fk, freq) = <<>> THEN DictDel(fk, freq) ELSE fk

\* mutant: min_freq is never moved up
BumpMinFreqKept(minf, freq, emptied) == minf
\* "if self.min_freq == freq: self.min_freq += 1" inside the emptied-bucket branch
BumpMinFreq(minf, freq, emptied) ==
    IF emptied /\ minf = freq THEN minf + 1 ELSE minf

\* mutant: the frequency bookkeeping is skipped
update_freq_skipped(s, key) == s
\* _update_freq
update_freq(s, key) ==
    LET freq    == s.key_freq[key]
        removed == DictSet(s.freq_keys, freq, OrdDel(s.freq_keys[freq], key))
        emptied == removed[freq] = <<>>
        cleaned == DropEmptyBucket(removed, freq)
        newf    == freq + 1
    IN  [s EXCEPT !.freq_keys = DictSet(cleaned, newf, Append(BucketOf(cleaned, newf), key)),
                  !.key_freq  = DictSet(s.key_freq, key, newf),
                  !.min_freq  = BumpMinFreq(s.min_freq, freq, emptied)]

\* mutant: the bucket of an absent key's frequency is looked up, which creates it
LFUGetTouching(s, key) ==
    IF key \notin DOMAIN s.key_value
    THEN [s |-> [s EXCEPT !.freq_keys = IF 0 \in DOMAIN s.freq_keys THEN s.freq_keys
                                        ELSE DictSet(s.freq_keys, 0, <<>>)],
          ret |-> None]
    ELSE [s |-> update_freq(s, key), ret |-> s.key_value[key]]
\* get: [s |-> the strategy afterwards, ret |-> the value or None]
LFUGet(s, key) ==
    IF key \notin DOMAIN s.key_value
    THEN [s |-> s, ret |-> None]
    ELSE [s |-> update_freq(s, key), ret |-> s.key_value[key]]

\* mutant: off-by-one capacity test
IsFullStrict(s) == Cardinality(DOMAIN s.key_value) > s.capacity
\* "if len(self.key_value) >= self.capacity"
IsFull(s) == Cardinality(DOMAIN s.key_value) >= s.capacity

\* mutant: newest key of the bucket is evicted
PopVictimLast(bucket) == bucket[Len(bucket)]
\* "popitem(last=False)": the first key of the bucket
PopVictim(bucket) == Head(bucket)

\* mutant: the victim is taken from the highest frequency bucket
VictimFreqMax(s) ==
    IF DOMAIN s.freq_keys = {} THEN s.min_freq
    ELSE CHOOSE f \in DOMAIN s.freq_keys : \A g \in DOMAIN s.freq_keys : g <= f
\* "self.freq_keys[self.min_freq]": the bucket the victim is taken from
VictimFreq(s) == s.min_freq

\* mutant: an update of a resident key keeps the old value
StoreValueKeep(kv, key, value) == IF key \in DOMAIN kv THEN kv ELSE DictSet(kv, key, value)
\* "self.key_value[key] = value"
StoreValue(kv, key, value) == DictSet(kv, key, value)

\* lines 185-189: add the new key at frequency 1
InsertNew(s, key, value) ==
    [s EXCEPT !.key_value = StoreValue(s.key_value, key, value),
              !.key_freq  = DictSet(s.key_freq, key, 1),
              !.freq_keys = DictSet(s.freq_keys, 1, Append(BucketOf(s.freq_keys, 1), key)),
              !.min_freq  = 1]

\* put: [s |-> the strategy afterwards, evicted |-> <<key, value>> or NoItem,
\*       raised |-> "none" or the exception that left put]
LFUPut(s, key, value) ==
    IF key \in DOMAIN s.key_value
    THEN [s |-> update_freq([s EXCEPT !.key_value = StoreValue(s.key_value, key, value)], key),
          evicted |-> NoItem, raised |-> "none"]
    ELSE IF IsFull(s)
    THEN LET vf     == VictimFreq(s)
             bucket == BucketOf(s.freq_keys, vf)
         IN  IF bucket = <<>>
             THEN \* the defaultdict creates the bucket, popitem on it raises KeyError
                  [s |-> [s EXCEPT !.freq_keys = DictSet(s.freq_keys, vf, <<>>)],
                   evicted |-> NoItem, raised |-> "KeyError"]
             ELSE LET lfu_key == PopVictim(bucket)
                      popped  == DictSet(s.freq_keys, vf, OrdDel(bucket, lfu_key))
                      s1 == [s EXCEPT !.key_value = DictDel(s.key_value, lfu_key),
                                      !.key_freq  = DictDel(s.key_freq, lfu_key),
                                      !.freq_keys = DropEmptyBucket(popped, vf)]
                  IN  [s |-> InsertNew(s1, key, value),
                       evicted |-> <<lfu_key, s.key_value[lfu_key]>>, raised |-> "none"]
    ELSE [s |-> InsertNew(s, key, value), evicted |-> NoItem, raised |-> "none"]

\* mutant: min_freq is moved up by one, as _update_freq does
MinAfterDeleteNext(s, fk, freq, emptied) ==
    IF emptied /\ s.min_freq = freq THEN s.min_freq + 1 ELSE s.min_freq
\* mutant: min_freq is left as it was when its bucket is deleted
MinAfterDeleteStale(s, fk, freq, emptied) == s.min_freq
\* "if self.min_freq == freq: self.min_freq = min(self.freq_keys.keys(), default=0)"
MinAfterDelete(s, fk, freq, emptied) ==
    IF emptied /\ s.min_freq = freq
    THEN (IF DOMAIN fk = {} THEN 0 ELSE MinOf(DOMAIN fk))
    ELSE s.min_freq

LFUDelete(s, key) ==
    IF key \notin DOMAIN s.key_value
    THEN s
    ELSE LET freq    == s.key_freq[key]
             removed == DictSet(s.freq_keys, freq, OrdDel(s.freq_keys[freq], key))
             emptied == removed[freq] = <<>>
             cleaned == DropEmptyBucket(removed, freq)
         IN  [s EXCEPT !.key_value = DictDel(s.key_value, key),
                       !.key_freq  = DictDel(s.key_freq, key),
                       !.freq_keys = cleaned,
                       !.min_freq  = MinAfterDelete(s, cleaned, freq, emptied)]

Size(s)     == Cardinality(DOMAIN s.key_value)
Resident(s) == DOMAIN s.key_value

(***************************************************************************)
(* SpecLFU: one LFUStrategy driven by arbitrary get / put / delete calls.  *)
(***************************************************************************)
NoLfuOp == [name |-> "init", key |-> None, value |-> None, ret |-> None,
            evicted |-> NoItem, raised |-> "none"]
VoidHist == [valid |-> FALSE, last |-> EmptyDict, overwrote |-> FALSE]

LfuIdle == /\ strategy = NewLFU(0)
           /\ lfu_op = NoLfuOp
           /\ touch_order = <<>>
           /\ put_hist = VoidHist

\* a key is bumped only below the frequency bound
CanBump(s, key) == key \in DOMAIN s.key_freq => s.key_freq[key] < MaxFreq

\* history: the keys resident afterwards, in the order they were last inserted or bumped
Touched(order, after, key) ==
    LET kept == SelectSeq(order, LAMBDA x : x \in Resident(after) /\ x # key)
    IN  IF key \in Resident(after) THEN Append(kept, key) ELSE kept

\* history: the last value put per key, tracked while the calls so far are puts and
\* gets that inserted no more distinct keys than the capacity
HistAfterPut(h, s, key, value) ==
    IF h.valid /\ Cardinality((DOMAIN h.last) \cup {key}) <= s.capacity
    THEN [valid |-> TRUE, last |-> DictSet(h.last, key, value),
          overwrote |-> h.overwrote \/ (key \in DOMAIN h.last /\ h.last[key] # value)]
    ELSE VoidHist

Get(key) ==
    /\ CanBump(strategy, key)
    /\ LET r == LFUGet(strategy, key)
       IN  /\ strategy' = r.s
           /\ lfu_op' = [name |-> "get", key |-> key, value |-> None, ret |-> r.ret,
                         evicted |-> NoItem, raised |-> "none"]
           /\ touch_order' = IF key \in Resident(strategy)
                             THEN Touched(touch_order, r.s, key) ELSE touch_order
    /\ UNCHANGED put_hist
    /\ UNCHANGED <<cacheVars, bookingVars, taskVars>>

Put(key, value) ==
    /\ CanBump(strategy, key)
    /\ LET r == LFUPut(strategy, key, value)
       IN  /\ strategy' = r.s
           /\ lfu_op' = [name |-> "put", key |-> key, value |-> value, ret |-> None,
                         evicted |-> r.evicted, raised |-> r.raised]
           /\ touch_order' = Touched(touch_order, r.s, key)
    /\ put_hist' = HistAfterPut(put_hist, strategy, key, value)
    /\ UNCHANGED <<cacheVars, bookingVars, taskVars>>

Delete(key) ==
    /\ strategy' = LFUDelete(strategy, key)
    /\ lfu_op' = [name |-> "delete", key |-> key, value |-> None, ret |-> None,
                  evicted |-> NoItem, raised |-> "none"]
    /\ touch_order' = OrdDel(touch_order, key)
    /\ put_hist' = VoidHist
    /\ UNCHANGED <<cacheVars, bookingVars, taskVars>>

(***************************************************************************)
(* MultiLevelCache over CacheLevel objects; a CacheLevel forwards get, put *)
(* and delete verbatim to its LFUStrategy (cache_level.py 43, 61, 73).     *)
(***************************************************************************)
MaxLevels    == 3     \* SpecCache: max_levels in 1..MaxLevels, capacities of 1..MaxLevels entries
MaxTotalCap  == 2     \* SpecCache: capacities are >= 0 and sum to at most MaxTotalCap
MaxCacheFreq == 2     \* SpecCache: an operation runs only if it leaves every frequency <= MaxCacheFreq

NewCache(maxl, caps) ==
    [levels |-> <<NewLFU(caps[1])>>, max_levels |-> maxl, capacities |-> caps]

\* mutant: the item written is handed to the next level instead of the evicted one
AfterPutSameItem(p, i, r) ==
    [levels  |-> [p.levels EXCEPT ![i] = r.s],
     evicted |-> IF r.evicted = NoItem THEN NoItem ELSE p.evicted,
     raised  |-> r.raised,
     placed  |-> r.raised = "none" /\ r.evicted = NoItem,
     puts    |-> Append(p.puts, [level |-> i, item |-> p.evicted])]
\* one iteration of write's for loop, "evicted = level.put(*evicted)", on the loop
\* state p = [levels, evicted |-> the item to place, raised, placed, puts]; r is the
\* put's result
\* placed: the put reported no eviction and write returned from inside the loop
\* puts (history): the put calls made so far, [level (1-based), item] in call order
AfterPut(p, i, r) ==
    [levels  |-> [p.levels EXCEPT ![i] = r.s],
     evicted |-> r.evicted,
     raised  |-> r.raised,
     placed  |-> r.raised = "none" /\ r.evicted = NoItem,
     puts    |-> Append(p.puts, [level |-> i, item |-> p.evicted])]

CascadeStep(p, i) ==
    IF p.placed \/ p.raised # "none"
    THEN p
    ELSE AfterPut(p, i, LFUPut(p.levels[i], p.evicted[1], p.evicted[2]))

\* the for loop of write over the existing levels
Cascade(lv, item) ==
    LET step[i \in 0..Len(lv)] ==
            IF i = 0
            THEN [levels |-> lv, evicted |-> item, raised |-> "none", placed |-> FALSE,
                  puts |-> <<>>]
            ELSE CascadeStep(step[i - 1], i)
    IN  step[Len(lv)]

\* mutant: the new level is appended and the evicted item is not put into it
AfterNewLevelPutSkipped(w, r) ==
    [levels |-> Append(w.levels, NewLFU(r.s.capacity)), raised |-> "none",
     dropped |-> w.evicted, puts |-> w.puts]
\* "self.levels.append(new_level); new_level.put(*evicted)"; r is the put's result
AfterNewLevelPut(w, r) ==
    [levels |-> Append(w.levels, r.s), raised |-> r.raised,
     dropped |-> IF r.raised = "none" THEN NoItem ELSE w.evicted,
     puts |-> Append(w.puts, [level |-> Len(w.levels) + 1, item |-> w.evicted])]

\* mutant: a missing capacity is replaced by the last configured one
new_capacity_reused(caps, n) ==
    IF n + 1 > Len(caps)
    THEN [raised |-> "none", capacity |-> caps[Len(caps)]]
    ELSE [raised |-> "none", capacity |-> caps[n + 1]]
\* "new_capacity = self.capacities[len(self.levels)]", n being the 0-based index:
\* an index past the end of the list raises IndexError
new_capacity(caps, n) ==
    IF n + 1 > Len(caps)
    THEN [raised |-> "IndexError", capacity |-> 0]
    ELSE [raised |-> "none", capacity |-> caps[n + 1]]

\* lines 99-103: nc is the capacity looked up for the new level
NewLevel(w, nc) ==
    IF nc.raised # "none"
    THEN [levels |-> w.levels, raised |-> nc.raised, dropped |-> w.evicted, puts |-> w.puts]
    ELSE AfterNewLevelPut(w, LFUPut(NewLFU(nc.capacity), w.evicted[1], w.evicted[2]))

\* mutant: off-by-one test of the level count
CanGrowLax(c, n) == n <= c.max_levels
\* "if len(self.levels) < self.max_levels"
CanGrow(c, n) == n < c.max_levels

\* lines 95-103 of write: what follows the loop, w being the loop's final state
AfterCascade(c, w) ==
    IF w.raised # "none" \/ w.placed
    THEN [levels |-> w.levels, raised |-> w.raised, dropped |-> NoItem, puts |-> w.puts]
    ELSE IF CanGrow(c, Len(w.levels))
    THEN NewLevel(w, new_capacity(c.capacities, Len(w.levels)))
    ELSE [levels |-> w.levels, raised |-> "none", dropped |-> w.evicted, puts |-> w.puts]

\* write: [levels |-> the levels afterwards, raised |-> "none" or the exception,
\*         dropped |-> the entry that ended in no level, or NoItem,
\*         puts |-> the put calls made, in order]
CacheWrite(c, key, value) == AfterCascade(c, Cascade(c.levels, <<key, value>>))

\* the levels (1-based) that hold the key
HeldBy(lv, key) == {i \in 1..Len(lv) : key \in DOMAIN lv[i].key_value}

\* the index (1-based) of the first level whose get returns a value ("if value is not
\* None"), 0 when none does; get returns a value exactly for the keys of key_value
FirstHit(lv, key) ==
    IF HeldBy(lv, key) # {} THEN MinOf(HeldBy(lv, key)) ELSE 0

\* "value = level.get(key)" has run on the first n levels, which all missed
GetsBefore(lv, key, n) ==
    LET got[j \in 0..Len(lv)] ==
            IF j = 0 THEN <<>>
            ELSE Append(got[j - 1], IF j <= n THEN LFUGet(lv[j], key).s ELSE lv[j])
    IN  got[Len(lv)]

\* "self.write(key, value)" of read has run with result w
AfterPromotion(i, value, w) ==
    [levels |-> w.levels, ret |-> IF w.raised = "none" THEN value ELSE None,
     raised |-> w.raised, hit |-> i, dropped |-> w.dropped, puts |-> w.puts]

\* mutant: the value is returned without promotion
ReadHitNoPromotion(c, key, i, r) ==
    [levels |-> [c.levels EXCEPT ![i] = r.s], ret |-> r.ret, raised |-> "none",
     hit |-> i, dropped |-> NoItem, puts |-> <<>>]
\* mutant: promotion moves the entry: the level that answered gives it up
ReadHitMoves(c, key, i, r) ==
    IF i # 1
    THEN AfterPromotion(i, r.ret,
             CacheWrite([c EXCEPT !.levels = [c.levels EXCEPT ![i] = LFUDelete(r.s, key)]],
                        key, r.ret))
    ELSE [levels |-> [c.levels EXCEPT ![i] = r.s], ret |-> r.ret, raised |-> "none",
          hit |-> i, dropped |-> NoItem, puts |-> <<>>]
\* mutant: every hit, one in the first level included, is served by writing the value
\* found back to the front
ReadHitAlwaysPromotes(c, key, i, r) ==
    AfterPromotion(i, r.ret, CacheWrite(c, key, r.ret))
\* read found the key at level i; r is the result of that level's get
ReadHit(c, key, i, r) ==
    IF i # 1
    THEN AfterPromotion(i, r.ret,
             CacheWrite([c EXCEPT !.levels = [c.levels EXCEPT ![i] = r.s]], key, r.ret))
    ELSE [levels |-> [c.levels EXCEPT ![i] = r.s], ret |-> r.ret, raised |-> "none",
          hit |-> i, dropped |-> NoItem, puts |-> <<>>]

\* read whose loop ends at level i (0: it ran through every level and returns None)
ReadAt(c, key, i) ==
    IF i = 0
    THEN [levels |-> GetsBefore(c.levels, key, Len(c.levels)), ret |-> None,
          raised |-> "none", hit |-> 0, dropped |-> NoItem, puts |-> <<>>]
    ELSE ReadHit([c EXCEPT !.levels = GetsBefore(c.levels, key, i - 1)], key, i,
                 LFUGet(c.levels[i], key))

\* read: [levels, ret |-> the value or None, raised, hit |-> index of the level that
\*        held the key (1-based), 0 on a miss, dropped |-> what the promoting write dropped,
\*        puts |-> the put calls of the promoting write]
CacheRead(c, key) == ReadAt(c, key, FirstHit(c.levels, key))

\* mutant: the loop stops after the first level that held the key
CacheDeleteFirstOnly(c, key) ==
    [i \in 1..Len(c.levels) |->
        IF i <= FirstHit(c.levels, key) THEN LFUDelete(c.levels[i], key) ELSE c.levels[i]]
\* delete: "for level in self.levels: level.delete(key)"
CacheDelete(c, key) == [i \in 1..Len(c.levels) |-> LFUDelete(c.levels[i], key)]

(***************************************************************************)
(* SpecCache: one MultiLevelCache driven by read / write / delete calls.   *)
(***************************************************************************)
TheCache == [levels |-> levels, max_levels |-> max_levels, capacities |-> capacities]

\* cache_op (history): the last call, what the caller got back (ret, raised), the put
\* calls it made on the levels, held: the levels that held the key before the call,
\* and tiers: the number of levels before the call
NoCacheOp == [name |-> "init", key |-> None, value |-> None, ret |-> None,
              raised |-> "none", hit |-> 0, dropped |-> NoItem, puts |-> <<>>, held |-> {},
              tiers |-> 0]

\* last_written (history): the value given by the latest write of a key, None after a
\* delete of the key and for a key that no level holds (a read of it returns None)
NeverWritten == [k \in Keys |-> None]
Remembered(lw, lv) == [k \in Keys |-> IF HeldBy(lv, k) = {} THEN None ELSE lw[k]]

CacheIdle == /\ levels = <<>>
             /\ max_levels = 0
             /\ capacities = <<>>
             /\ cache_op = NoCacheOp
             /\ last_written = NeverWritten
             /\ wpc = <<>>
             /\ wlocal = <<>>
             /\ wcalls = 0

FreqBounded(lv) ==
    \A i \in 1..Len(lv) : \A k \in DOMAIN lv[i].key_freq : lv[i].key_freq[k] <= MaxCacheFreq

ReadDone(key, r) ==
    /\ FreqBounded(r.levels)
    /\ levels' = r.levels
    /\ cache_op' = [name |-> "read", key |-> key, value |-> None, ret |-> r.ret,
                    raised |-> r.raised, hit |-> r.hit, dropped |-> r.dropped,
                    puts |-> r.puts, held |-> HeldBy(levels, key),
                    tiers |-> Len(levels)]

Read(key) ==
    /\ ReadDone(key, CacheRead(TheCache, key))
    /\ last_written' = Remembered(last_written, levels')
    /\ UNCHANGED <<max_levels, capacities, wpc, wlocal, wcalls>>
    /\ UNCHANGED <<lfuVars, bookingVars, taskVars>>

WriteDone(key, value, w) ==
    /\ FreqBounded(w.levels)
    /\ levels' = w.levels
    /\ cache_op' = [name |-> "write", key |-> key, value |-> value, ret |-> None,
                    raised |-> w.raised, hit |-> 0, dropped |-> w.dropped,
                    puts |-> w.puts, held |-> HeldBy(levels, key),
                    tiers |-> Len(levels)]

Write(key, value) ==
    /\ WriteDone(key, value, CacheWrite(TheCache, key, value))
    /\ last_written' = Remembered([last_written EXCEPT ![key] = value], levels')
    /\ UNCHANGED <<max_levels, capacities, wpc, wlocal, wcalls>>
    /\ UNCHANGED <<lfuVars, bookingVars, taskVars>>

CDelete(key) ==
    /\ levels' = CacheDelete(TheCache, key)
    /\ last_written' = Remembered([last_written EXCEPT ![key] = None], levels')
    /\ cache_op' = [name |-> "delete", key |-> key, value |-> None, ret |-> None,
                    raised |-> "none", hit |-> 0, dropped |-> NoItem,
                    puts |-> <<>>, held |-> HeldBy(levels, key),
                    tiers |-> Len(levels)]
    /\ UNCHANGED <<max_levels, capacities, wpc, wlocal, wcalls>>
    /\ UNCHANGED <<lfuVars, bookingVars, taskVars>>

(***************************************************************************)
(* Restaurant booking: Venue and BookingSystem.book_table run by threads.  *)
(* One venue is registered; a call may also name a venue id that is not.   *)
(* A step is one access to shared state, so threads interleave between     *)
(* the statements of book_table, get_slot_lock and decrement_table_for_slot*)
(***************************************************************************)
NumThreads == 2       \* SpecBooking: threads 1..NumThreads call book_table again and again
MaxTables  == 2       \* SpecBooking: a slot is configured with 0..MaxTables tables
MaxCalls   == 2       \* FairBookingOps: each thread makes at most MaxCalls calls

Threads == 1..NumThreads
Slots   == {"s1", "s2"}

NoCall == [slot |-> "none", venue_known |-> TRUE, slot_lock |-> 0, cur |-> 0,
           outcome |-> "none", op |-> "none", slot_dt_list |-> <<>>, tables_each |-> 0,
           next |-> 0]

BookingIdle == /\ availability = EmptyDict
               /\ slot_locks = EmptyDict
               /\ lock_holder = <<>>
               /\ venue_lock = 0
               /\ venues_lock = 0
               /\ bookings = <<>>
               /\ pc = <<>>
               /\ call = <<>>
               /\ result = <<>>
               /\ initial_tables = EmptyDict
               /\ succeeded = EmptyDict
               /\ updates = 0
               /\ calls_left = EmptyDict

\* threading.Lock.acquire / RLock.acquire succeed only on a lock nobody holds
\* (no thread re-enters an RLock it holds in this code)
LockFree(holder) == holder = 0

\* mutant: a slot without a lock is given the lock object created first
SlotLockLookupShared(locks, holders, slot_dt) ==
    IF slot_dt \notin DOMAIN locks
    THEN IF Len(holders) > 0
         THEN [locks |-> DictSet(locks, slot_dt, 1), holders |-> holders]
         ELSE [locks |-> DictSet(locks, slot_dt, Len(holders) + 1),
               holders |-> Append(holders, 0)]
    ELSE [locks |-> locks, holders |-> holders]
\* mutant: a fresh Lock is created on every call
SlotLockLookupFresh(locks, holders, slot_dt) ==
    [locks |-> DictSet(locks, slot_dt, Len(holders) + 1), holders |-> Append(holders, 0)]
\* get_slot_lock's body: "if slot_dt not in self._slot_locks: ... = threading.Lock()"
SlotLockLookup(locks, holders, slot_dt) ==
    IF slot_dt \notin DOMAIN locks
    THEN [locks |-> DictSet(locks, slot_dt, Len(holders) + 1), holders |-> Append(holders, 0)]
    ELSE [locks |-> locks, holders |-> holders]

\* Venue.available_tables: self.availability.get(slot_dt, 0)
available_tables(avail, slot_dt) == IF slot_dt \in DOMAIN avail THEN avail[slot_dt] ELSE 0

\* mutant: two tables are taken
DecrementedTwice(cur) == cur - 2
\* mutant: the count is stored back unchanged
DecrementedNot(cur) == cur
\* "self.availability[slot_dt] -= 1": the value stored
Decremented(cur) == cur - 1

\* "if available <= 0: raise SlotUnavailableError"
NoTable(available) == available <= 0

Finish(t, outcome) ==
    /\ pc' = [pc EXCEPT ![t] = "idle"]
    /\ call' = [call EXCEPT ![t] = NoCall]
    /\ result' = [result EXCEPT ![t] = outcome]
    /\ succeeded' = IF outcome = "booked"
                    THEN [succeeded EXCEPT ![call[t].slot] = @ + 1]
                    ELSE succeeded

\* thread t makes one more call: a thread with a limit on its calls has some left
StartCall(t) ==
    /\ t \in DOMAIN calls_left => calls_left[t] > 0
    /\ calls_left' = IF t \in DOMAIN calls_left
                     THEN [calls_left EXCEPT ![t] = @ - 1]
                     ELSE calls_left

\* book_table lines 80-83: the argument checks, then on to _get_venue_or_raise
BookCall(t, slot_dt, num_people, in_window, known) ==
    /\ pc[t] = "idle"
    /\ StartCall(t)
    /\ IF num_people <= 0 \/ ~in_window
       THEN Finish(t, "ValidationError")
       ELSE /\ pc' = [pc EXCEPT ![t] = "get_venue"]
            /\ call' = [call EXCEPT ![t] = [NoCall EXCEPT !.slot = slot_dt, !.venue_known = known]]
            /\ result' = [result EXCEPT ![t] = "none"]
            /\ UNCHANGED succeeded
    /\ UNCHANGED <<availability, slot_locks, lock_holder, venue_lock, venues_lock,
                   bookings, initial_tables>>
    /\ UNCHANGED <<lfuVars, cacheVars, taskVars, updates>>

\* _get_venue_or_raise: "with self._venues_lock:" entered
EnterGetVenue(t) ==
    /\ pc[t] = "get_venue"
    /\ LockFree(venues_lock)
    /\ venues_lock' = t
    /\ pc' = [pc EXCEPT ![t] = "in_get_venue"]
    /\ UNCHANGED <<availability, slot_locks, lock_holder, venue_lock, bookings, call,
                   result, initial_tables, succeeded>>
    /\ UNCHANGED <<lfuVars, cacheVars, taskVars, updates, calls_left>>

\* _get_venue_or_raise: the lookup, leaving the with block either way
LookupVenue(t) ==
    /\ pc[t] = "in_get_venue"
    /\ venues_lock' = 0
    /\ IF call[t].venue_known
       THEN /\ pc' = [pc EXCEPT ![t] = "get_slot_lock"]
            /\ UNCHANGED <<call, result, succeeded>>
       ELSE Finish(t, "NotFoundError")
    /\ UNCHANGED <<availability, slot_locks, lock_holder, venue_lock, bookings,
                   initial_tables>>
    /\ UNCHANGED <<lfuVars, cacheVars, taskVars, updates, calls_left>>

\* Venue.get_slot_lock: "with self._lock:" entered
EnterGetSlotLock(t) ==
    /\ pc[t] = "get_slot_lock"
    /\ LockFree(venue_lock)
    /\ venue_lock' = t
    /\ pc' = [pc EXCEPT ![t] = "in_get_slot_lock"]
    /\ UNCHANGED <<availability, slot_locks, lock_holder, venues_lock, bookings, call,
                   result, initial_tables, succeeded>>
    /\ UNCHANGED <<lfuVars, cacheVars, taskVars, updates, calls_left>>

GotSlotLock(t, r) ==
    /\ slot_locks' = r.locks
    /\ lock_holder' = r.holders
    /\ call' = [call EXCEPT ![t].slot_lock = r.locks[call[t].slot]]

\* mutant: the lock is returned while Venue._lock stays held
GetSlotLockHeld(t) ==
    /\ pc[t] = "in_get_slot_lock"
    /\ GotSlotLock(t, SlotLockLookup(slot_locks, lock_holder, call[t].slot))
    /\ pc' = [pc EXCEPT ![t] = "acquire"]
    /\ UNCHANGED <<availability, venue_lock, venues_lock, bookings, result, initial_tables,
                   succeeded>>
    /\ UNCHANGED <<lfuVars, cacheVars, taskVars, updates, calls_left>>
\* Venue.get_slot_lock: create on demand, return the lock, leave the with block
GetSlotLock(t) ==
    /\ pc[t] = "in_get_slot_lock"
    /\ GotSlotLock(t, SlotLockLookup(slot_locks, lock_holder, call[t].slot))
    /\ venue_lock' = 0
    /\ pc' = [pc EXCEPT ![t] = "acquire"]
    /\ UNCHANGED <<availability, venues_lock, bookings, result, initial_tables, succeeded>>
    /\ UNCHANGED <<lfuVars, cacheVars, taskVars, updates, calls_left>>

\* "acquired = slot_lock.acquire(timeout=5)" returning True
AcquireSlotLock(t) ==
    /\ pc[t] = "acquire"
    /\ LockFree(lock_holder[call[t].slot_lock])
    /\ lock_holder' = [lock_holder EXCEPT ![call[t].slot_lock] = t]
    /\ pc' = [pc EXCEPT ![t] = "locked"]
    /\ UNCHANGED <<availability, slot_locks, venue_lock, venues_lock, bookings, call,
                   result, initial_tables, succeeded>>
    /\ UNCHANGED <<lfuVars, cacheVars, taskVars, updates, calls_left>>

\* mutant: the result of acquire is ignored and the call goes on into the try block
AcquireTimeoutIgnored(t) ==
    /\ pc[t] = "acquire"
    /\ ~LockFree(lock_holder[call[t].slot_lock])
    /\ pc' = [pc EXCEPT ![t] = "locked"]
    /\ UNCHANGED <<availability, slot_locks, lock_holder, venue_lock, venues_lock,
                   bookings, call, result, initial_tables, succeeded>>
    /\ UNCHANGED <<lfuVars, cacheVars, taskVars, updates, calls_left>>
\* "acquired = slot_lock.acquire(timeout=5)" returning False: the lock stayed held by
\* another thread for the whole timeout; "raise BookingError"
AcquireTimeout(t) ==
    /\ pc[t] = "acquire"
    /\ ~LockFree(lock_holder[call[t].slot_lock])
    /\ Finish(t, "BookingError")
    /\ UNCHANGED <<availability, slot_locks, lock_holder, venue_lock, venues_lock,
                   bookings, initial_tables>>
    /\ UNCHANGED <<lfuVars, cacheVars, taskVars, updates, calls_left>>

\* lines 93-95: read the availability and test it
CheckAvailable(t) ==
    /\ pc[t] = "locked"
    /\ IF NoTable(available_tables(availability, call[t].slot))
       THEN /\ pc' = [pc EXCEPT ![t] = "release"]
            /\ call' = [call EXCEPT ![t].outcome = "SlotUnavailableError"]
       ELSE /\ pc' = [pc EXCEPT ![t] = "decrement"]
            /\ UNCHANGED call
    /\ UNCHANGED <<availability, slot_locks, lock_holder, venue_lock, venues_lock,
                   bookings, result, initial_tables, succeeded>>
    /\ UNCHANGED <<lfuVars, cacheVars, taskVars, updates, calls_left>>

\* decrement_table_for_slot lines 133-136: the two guards
DecrementCheck(t) ==
    /\ pc[t] = "decrement"
    /\ IF call[t].slot \notin DOMAIN availability \/ availability[call[t].slot] <= 0
       THEN /\ pc' = [pc EXCEPT ![t] = "release"]
            /\ call' = [call EXCEPT ![t].outcome = "SlotUnavailableError"]
       ELSE /\ pc' = [pc EXCEPT ![t] = "dec_load"]
            /\ UNCHANGED call
    /\ UNCHANGED <<availability, slot_locks, lock_holder, venue_lock, venues_lock,
                   bookings, result, initial_tables, succeeded>>
    /\ UNCHANGED <<lfuVars, cacheVars, taskVars, updates, calls_left>>

\* "self.availability[slot_dt] -= 1": the read of the current count
DecrementLoad(t) ==
    /\ pc[t] = "dec_load"
    /\ call' = [call EXCEPT ![t].cur = availability[call[t].slot]]
    /\ pc' = [pc EXCEPT ![t] = "dec_store"]
    /\ UNCHANGED <<availability, slot_locks, lock_holder, venue_lock, venues_lock,
                   bookings, result, initial_tables, succeeded>>
    /\ UNCHANGED <<lfuVars, cacheVars, taskVars, updates, calls_left>>

\* "self.availability[slot_dt] -= 1": the store of the count minus one
DecrementStore(t) ==
    /\ pc[t] = "dec_store"
    /\ availability' = [availability EXCEPT ![call[t].slot] = Decremented(call[t].cur)]
    /\ call' = [call EXCEPT ![t].cur = 0]
    /\ pc' = [pc EXCEPT ![t] = "record"]
    /\ UNCHANGED <<slot_locks, lock_holder, venue_lock, venues_lock, bookings, result,
                   initial_tables, succeeded>>
    /\ UNCHANGED <<lfuVars, cacheVars, taskVars, updates, calls_left>>

\* line 106: "with self._venues_lock:" entered (the slot lock is still held)
EnterRecord(t) ==
    /\ pc[t] = "record"
    /\ LockFree(venues_lock)
    /\ venues_lock' = t
    /\ pc' = [pc EXCEPT ![t] = "in_record"]
    /\ UNCHANGED <<availability, slot_locks, lock_holder, venue_lock, bookings, call,
                   result, initial_tables, succeeded>>
    /\ UNCHANGED <<lfuVars, cacheVars, taskVars, updates, calls_left>>

\* line 107: the booking is stored under a fresh uuid; the with block is left
RecordBooking(t) ==
    /\ pc[t] = "in_record"
    /\ bookings' = Append(bookings, call[t].slot)
    /\ venues_lock' = 0
    /\ call' = [call EXCEPT ![t].outcome = "booked"]
    /\ pc' = [pc EXCEPT ![t] = "release"]
    /\ UNCHANGED <<availability, slot_locks, lock_holder, venue_lock, result,
                   initial_tables, succeeded>>
    /\ UNCHANGED <<lfuVars, cacheVars, taskVars, updates, calls_left>>

\* mutant: the lock is released on the success path only, not in a finally block
ReleaseSlotLockOnSuccess(t) ==
    /\ pc[t] = "release"
    /\ IF call[t].outcome = "booked"
       THEN lock_holder' = [lock_holder EXCEPT ![call[t].slot_lock] = 0]
       ELSE UNCHANGED lock_holder
    /\ Finish(t, call[t].outcome)
    /\ UNCHANGED <<availability, slot_locks, venue_lock, venues_lock, bookings,
                   initial_tables>>
    /\ UNCHANGED <<lfuVars, cacheVars, taskVars, updates, calls_left>>
\* "finally: slot_lock.release()", then the return or the pending exception
ReleaseSlotLock(t) ==
    /\ pc[t] = "release"
    /\ IF lock_holder[call[t].slot_lock] = 0
       THEN /\ Finish(t, "RuntimeError")      \* release of an unlocked Lock
            /\ UNCHANGED lock_holder
       ELSE /\ lock_holder' = [lock_holder EXCEPT ![call[t].slot_lock] = 0]
            /\ Finish(t, call[t].outcome)
    /\ UNCHANGED <<availability, slot_locks, venue_lock, venues_lock, bookings,
                   initial_tables>>
    /\ UNCHANGED <<lfuVars, cacheVars, taskVars, updates, calls_left>>

(***************************************************************************)
(* The other operations of BookingSystem, run by the same threads:         *)
(* update_time_slots (with Venue.set_time_slot), register_venue,           *)
(* search_venues and list_bookings.                                        *)
(***************************************************************************)
MaxUpdates == 1       \* SpecBookingOps: update_time_slots is called at most MaxUpdates times

\* the slot lists update_time_slots is called with; "far" is a slot outside the
\* booking window
UpdateLists == {<<"s1">>, <<"s2", "s1">>, <<"s1", "far">>}

\* _is_within_booking_window
is_within_booking_window(slot_dt) == slot_dt # "far"

\* mutant: only the first slot of the list is validated
AllWithinWindowFirstOnly(slot_dt_list) ==
    slot_dt_list = <<>> \/ is_within_booking_window(slot_dt_list[1])
\* update_time_slots lines 29-31: the validation loop finds no slot outside the window
AllWithinWindow(slot_dt_list) ==
    \A i \in 1..Len(slot_dt_list) : is_within_booking_window(slot_dt_list[i])

\* mutant: set_time_slot gives the slot a new Lock every time
SetSlotLockReplaced(locks, holders, slot_dt) ==
    [locks |-> DictSet(locks, slot_dt, Len(holders) + 1), holders |-> Append(holders, 0)]
\* set_time_slot lines 97-98: "if slot_dt not in self._slot_locks: ... = threading.Lock()"
SetSlotLock(locks, holders, slot_dt) ==
    IF slot_dt \notin DOMAIN locks
    THEN [locks |-> DictSet(locks, slot_dt, Len(holders) + 1), holders |-> Append(holders, 0)]
    ELSE [locks |-> locks, holders |-> holders]

\* update_time_slots lines 26-28: the check of tables_each, then _get_venue_or_raise
UpdateCall(t, slot_dt_list, tables_each, known) ==
    /\ pc[t] = "idle"
    /\ StartCall(t)
    /\ updates < MaxUpdates
    /\ updates' = updates + 1
    /\ IF tables_each < 0
       THEN Finish(t, "ValidationError: tables_each")
       ELSE /\ pc' = [pc EXCEPT ![t] = "u_get_venue"]
            /\ call' = [call EXCEPT ![t] = [NoCall EXCEPT !.op = "update_time_slots",
                                                          !.slot_dt_list = slot_dt_list,
                                                          !.tables_each = tables_each,
                                                          !.venue_known = known]]
            /\ result' = [result EXCEPT ![t] = "none"]
            /\ UNCHANGED succeeded
    /\ UNCHANGED <<availability, slot_locks, lock_holder, venue_lock, venues_lock,
                   bookings, initial_tables>>
    /\ UNCHANGED <<lfuVars, cacheVars, taskVars>>

\* _get_venue_or_raise called by update_time_slots: "with self._venues_lock:" entered
UpdateEnterGetVenue(t) ==
    /\ pc[t] = "u_get_venue"
    /\ LockFree(venues_lock)
    /\ venues_lock' = t
    /\ pc' = [pc EXCEPT ![t] = "u_in_get_venue"]
    /\ UNCHANGED <<availability, slot_locks, lock_holder, venue_lock, bookings, call,
                   result, initial_tables, succeeded, updates, calls_left>>
    /\ UNCHANGED <<lfuVars, cacheVars, taskVars>>

\* _get_venue_or_raise called by update_time_slots: the lookup, leaving the with block
UpdateLookupVenue(t) ==
    /\ pc[t] = "u_in_get_venue"
    /\ venues_lock' = 0
    /\ IF call[t].venue_known
       THEN /\ pc' = [pc EXCEPT ![t] = "u_validate"]
            /\ UNCHANGED <<call, result, succeeded>>
       ELSE Finish(t, "NotFoundError")
    /\ UNCHANGED <<availability, slot_locks, lock_holder, venue_lock, bookings,
                   initial_tables, updates, calls_left>>
    /\ UNCHANGED <<lfuVars, cacheVars, taskVars>>

\* update_time_slots lines 29-31: every slot of the list is validated before any is set
UpdateValidate(t) ==
    /\ pc[t] = "u_validate"
    /\ IF ~AllWithinWindow(call[t].slot_dt_list)
       THEN Finish(t, "ValidationError: window")
       ELSE IF call[t].slot_dt_list = <<>>
       THEN Finish(t, "updated")
       ELSE /\ pc' = [pc EXCEPT ![t] = "u_set"]
            /\ call' = [call EXCEPT ![t].next = 1]
            /\ UNCHANGED <<result, succeeded>>
    /\ UNCHANGED <<availability, slot_locks, lock_holder, venue_lock, venues_lock,
                   bookings, initial_tables, updates, calls_left>>
    /\ UNCHANGED <<lfuVars, cacheVars, taskVars>>

\* set_time_slot lines 92-94: the check of tables, then "with self._lock:" entered
EnterSetTimeSlot(t) ==
    /\ pc[t] = "u_set"
    /\ IF call[t].tables_each < 0
       THEN /\ Finish(t, "ValidationError: tables")
            /\ UNCHANGED venue_lock
       ELSE /\ LockFree(venue_lock)
            /\ venue_lock' = t
            /\ pc' = [pc EXCEPT ![t] = "u_in_set"]
            /\ UNCHANGED <<call, result, succeeded>>
    /\ UNCHANGED <<availability, slot_locks, lock_holder, venues_lock, bookings,
                   initial_tables, updates, calls_left>>
    /\ UNCHANGED <<lfuVars, cacheVars, taskVars>>

SetTimeSlotDone(t, slot_dt, r) ==
    /\ availability' = DictSet(availability, slot_dt, call[t].tables_each)
    /\ slot_locks' = r.locks
    /\ lock_holder' = r.holders

\* set_time_slot lines 95-98: store the count, create the slot's lock if there is none,
\* leave the with block; then the next slot of the list or the return
SetTimeSlot(t) ==
    /\ pc[t] = "u_in_set"
    /\ SetTimeSlotDone(t, call[t].slot_dt_list[call[t].next],
                       SetSlotLock(slot_locks, lock_holder,
                                   call[t].slot_dt_list[call[t].next]))
    /\ venue_lock' = 0
    /\ IF call[t].next = Len(call[t].slot_dt_list)
       THEN Finish(t, "updated")
       ELSE /\ pc' = [pc EXCEPT ![t] = "u_set"]
            /\ call' = [call EXCEPT ![t].next = @ + 1]
            /\ UNCHANGED <<result, succeeded>>
    /\ UNCHANGED <<venues_lock, bookings, initial_tables, updates, calls_left>>
    /\ UNCHANGED <<lfuVars, cacheVars, taskVars>>

\* register_venue, search_venues and list_bookings: each runs inside one
\* "with self._venues_lock:" block and touches no slot
VenuesCall(t) ==
    /\ pc[t] = "idle"
    /\ StartCall(t)
    /\ pc' = [pc EXCEPT ![t] = "venues_op"]
    /\ call' = [call EXCEPT ![t] = [NoCall EXCEPT !.op = "venues_op"]]
    /\ result' = [result EXCEPT ![t] = "none"]
    /\ UNCHANGED <<availability, slot_locks, lock_holder, venue_lock, venues_lock,
                   bookings, initial_tables, succeeded, updates>>
    /\ UNCHANGED <<lfuVars, cacheVars, taskVars>>

\* "with self._venues_lock:" entered
EnterVenuesOp(t) ==
    /\ pc[t] = "venues_op"
    /\ LockFree(venues_lock)
    /\ venues_lock' = t
    /\ pc' = [pc EXCEPT ![t] = "in_venues_op"]
    /\ UNCHANGED <<availability, slot_locks, lock_holder, venue_lock, bookings, call,
                   result, initial_tables, succeeded, updates, calls_left>>
    /\ UNCHANGED <<lfuVars, cacheVars, taskVars>>

\* mutant: the call returns without leaving the with block
LeaveVenuesOpHeld(t) ==
    /\ pc[t] = "in_venues_op"
    /\ Finish(t, "returned")
    /\ UNCHANGED <<availability, slot_locks, lock_holder, venue_lock, venues_lock,
                   bookings, initial_tables, updates, calls_left>>
    /\ UNCHANGED <<lfuVars, cacheVars, taskVars>>
\* the body of the with block, which is left; the call returns
LeaveVenuesOp(t) ==
    /\ pc[t] = "in_venues_op"
    /\ venues_lock' = 0
    /\ Finish(t, "returned")
    /\ UNCHANGED <<availability, slot_locks, lock_holder, venue_lock, bookings,
                   initial_tables, updates, calls_left>>
    /\ UNCHANGED <<lfuVars, cacheVars, taskVars>>

(***************************************************************************)
(* Task management: TaskManager over the in-memory Database                *)
(***************************************************************************)
MaxTasks == 3

NoTask == -1     \* Python's None where a task id or a Task is expected

Titles    == {"", "t"}
NoTaskOp  == [name |-> "none", task_id |-> 0, new_parent_id |-> NoTask,
              ok |-> FALSE, msg |-> "", walk |-> "none"]

\* Task(...): of a stored task only parent_id is kept; title, task_type, status,
\* deadline and timestamps are never read by the operations on the hierarchy
Task(parent_id) == [parent_id |-> parent_id]

\* Database.get_task: the stored task or None
get_task(ts, task_id) == IF task_id \in DOMAIN ts THEN task_id ELSE NoTask

\* Database.get_tasks_by_parent: the stored tasks whose parent_id is parent_id
get_tasks_by_parent(ts, parent_id) == {x \in DOMAIN ts : ts[x].parent_id = parent_id}

\* delete_task: Database.delete_task for each dependent task, then for the task
DeleteWithDependents(ts, task_id) ==
    [x \in (DOMAIN ts) \ (get_tasks_by_parent(ts, task_id) \cup {task_id}) |-> ts[x]]

\* the while loop of move_task: "found" when it returns the rejection, "end" when
\* current becomes None, "diverges" when it takes more steps than there are tasks
RECURSIVE AncestorWalk(_, _, _, _)
AncestorWalk(ts, current, task_id, fuel) ==
    IF current = NoTask THEN "end"
    ELSE IF current = task_id THEN "found"
    ELSE IF fuel = 0 THEN "diverges"
    ELSE AncestorWalk(ts,
                      IF ts[current].parent_id # NoTask
                      THEN get_task(ts, ts[current].parent_id) ELSE NoTask,
                      task_id, fuel - 1)

\* mutant: only the new parent itself is compared with the task
CircularCheckParentOnly(ts, new_parent, task_id) ==
    IF new_parent = task_id THEN "found" ELSE "end"
\* the circular-dependency check of move_task, started at the new parent
CircularCheck(ts, new_parent, task_id) ==
    AncestorWalk(ts, new_parent, task_id, MaxTasks + 1)

\* the loop of create_story over task_ids
RECURSIVE AdoptAll(_, _, _)
AdoptAll(ts, task_ids, story_id) ==
    IF task_ids = <<>> THEN ts
    ELSE AdoptAll(IF get_task(ts, Head(task_ids)) # NoTask
                  THEN [ts EXCEPT ![Head(task_ids)].parent_id = story_id]
                  ELSE ts,
                  Tail(task_ids), story_id)

TaskReturn(name, task_id, new_parent_id, ok, msg, walk) ==
    task_op' = [name |-> name, task_id |-> task_id, new_parent_id |-> new_parent_id,
                ok |-> ok, msg |-> msg, walk |-> walk]

is_logged_in == current_user # None

\* SessionManager.login / logout
Login ==
    /\ current_user' = "u1"
    /\ UNCHANGED <<tasks, next_id, task_op>>
    /\ UNCHANGED <<lfuVars, cacheVars, bookingVars>>

Logout ==
    /\ current_user' = None
    /\ UNCHANGED <<tasks, next_id, task_op>>
    /\ UNCHANGED <<lfuVars, cacheVars, bookingVars>>

CreateTask(title) ==
    /\ next_id <= MaxTasks
    /\ IF title = ""
       THEN /\ TaskReturn("create_task", 0, NoTask, FALSE, "Title is required", "none")
            /\ UNCHANGED <<tasks, next_id>>
       ELSE IF ~is_logged_in
       THEN /\ TaskReturn("create_task", 0, NoTask, FALSE,
                          "User must be logged in to create tasks", "none")
            /\ UNCHANGED <<tasks, next_id>>
       ELSE /\ tasks' = DictSet(tasks, next_id, Task(NoTask))
            /\ next_id' = next_id + 1
            /\ TaskReturn("create_task", next_id, NoTask, TRUE,
                          "Task created successfully", "none")
    /\ UNCHANGED current_user
    /\ UNCHANGED <<lfuVars, cacheVars, bookingVars>>

CreateSubtask(parent_task_id, title) ==
    /\ next_id <= MaxTasks
    /\ IF title = ""
       THEN /\ TaskReturn("create_subtask", 0, parent_task_id, FALSE,
                          "Title is required", "none")
            /\ UNCHANGED <<tasks, next_id>>
       ELSE IF ~is_logged_in
       THEN /\ TaskReturn("create_subtask", 0, parent_task_id, FALSE,
                          "User must be logged in to create subtasks", "none")
            /\ UNCHANGED <<tasks, next_id>>
       ELSE IF get_task(tasks, parent_task_id) = NoTask
       THEN /\ TaskReturn("create_subtask", 0, parent_task_id, FALSE,
                          "Parent task not found", "none")
            /\ UNCHANGED <<tasks, next_id>>
       ELSE /\ tasks' = DictSet(tasks, next_id, Task(parent_task_id))
            /\ next_id' = next_id + 1
            /\ TaskReturn("create_subtask", next_id, parent_task_id, TRUE,
                          "Subtask created successfully", "none")
    /\ UNCHANGED current_user
    /\ UNCHANGED <<lfuVars, cacheVars, bookingVars>>

CreateStory(title, task_ids) ==
    /\ next_id <= MaxTasks
    /\ IF title = ""
       THEN /\ TaskReturn("create_story", 0, NoTask, FALSE, "Title is required", "none")
            /\ UNCHANGED <<tasks, next_id>>
       ELSE IF ~is_logged_in
       THEN /\ TaskReturn("create_story", 0, NoTask, FALSE,
                          "User must be logged in to create stories", "none")
            /\ UNCHANGED <<tasks, next_id>>
       ELSE /\ tasks' = AdoptAll(DictSet(tasks, next_id, Task(NoTask)),
                                 task_ids, next_id)
            /\ next_id' = next_id + 1
            /\ TaskReturn("create_story", next_id, NoTask, TRUE,
                          "Story created successfully", "none")
    /\ UNCHANGED current_user
    /\ UNCHANGED <<lfuVars, cacheVars, bookingVars>>

DeleteTask(task_id) ==
    /\ IF ~is_logged_in
       THEN /\ TaskReturn("delete_task", task_id, NoTask, FALSE,
                          "User must be logged in to delete tasks", "none")
            /\ UNCHANGED tasks
       ELSE IF get_task(tasks, task_id) = NoTask
       THEN /\ TaskReturn("delete_task", task_id, NoTask, FALSE, "Task not found", "none")
            /\ UNCHANGED tasks
       ELSE /\ tasks' = DeleteWithDependents(tasks, task_id)
            /\ TaskReturn("delete_task", task_id, NoTask, TRUE,
                          "Task deleted successfully", "none")
    /\ UNCHANGED <<next_id, current_user>>
    /\ UNCHANGED <<lfuVars, cacheVars, bookingVars>>

\* the part of move_task after the task was found; walk is the outcome of the check
MoveChecked(task_id, new_parent_id, walk) ==
    IF walk = "found"
    THEN /\ TaskReturn("move_task", task_id, new_parent_id, FALSE,
                       "Cannot move task into itself or its descendants", walk)
         /\ UNCHANGED tasks
    ELSE IF walk = "diverges"
    THEN /\ TaskReturn("move_task", task_id, new_parent_id, FALSE, "", walk)
         /\ UNCHANGED tasks
    ELSE /\ tasks' = [tasks EXCEPT ![task_id].parent_id = new_parent_id]
         /\ TaskReturn("move_task", task_id, new_parent_id, TRUE,
                       "Task moved successfully", walk)

MoveTask(task_id, new_parent_id) ==
    /\ IF ~is_logged_in
       THEN /\ TaskReturn("move_task", task_id, new_parent_id, FALSE,
                          "User must be logged in to move tasks", "none")
            /\ UNCHANGED tasks
       ELSE IF get_task(tasks, task_id) = NoTask
       THEN /\ TaskReturn("move_task", task_id, new_parent_id, FALSE,
                          "Task not found", "none")
            /\ UNCHANGED tasks
       ELSE IF new_parent_id = NoTask
       THEN MoveChecked(task_id, new_parent_id, "none")
       ELSE IF get_task(tasks, new_parent_id) = NoTask
       THEN /\ TaskReturn("move_task", task_id, new_parent_id, FALSE,
                          "New parent task not found", "none")
            /\ UNCHANGED tasks
       ELSE MoveChecked(task_id, new_parent_id,
                        CircularCheck(tasks, new_parent_id, task_id))
    /\ UNCHANGED <<next_id, current_user>>
    /\ UNCHANGED <<lfuVars, cacheVars, bookingVars>>

TasksIdle == /\ tasks = EmptyDict
             /\ next_id = 1
             /\ current_user = None
             /\ task_op = NoTaskOp

(***************************************************************************)
(* Specifications                                                          *)
(***************************************************************************)
InitLFU == /\ \E cap \in 0..MaxCapacity : strategy = NewLFU(cap)
           /\ lfu_op = NoLfuOp
           /\ touch_order = <<>>
           /\ put_hist = [valid |-> TRUE, last |-> EmptyDict, overwrote |-> FALSE]
           /\ CacheIdle
           /\ BookingIdle
           /\ TasksIdle

NextLFU == \/ \E key \in Keys : Get(key)
           \/ \E key \in Keys : \E value \in Values : Put(key, value)
           \/ \E key \in Keys : Delete(key)

SpecLFU == InitLFU /\ [][NextLFU]_vars

SumCaps(caps) ==
    LET sum[i \in 0..Len(caps)] == IF i = 0 THEN 0 ELSE sum[i - 1] + caps[i]
    IN  sum[Len(caps)]

CapacityLists ==
    {caps \in UNION {[1..n -> 0..MaxTotalCap] : n \in 1..MaxLevels} : SumCaps(caps) <= MaxTotalCap}

\* capacities beyond index max_levels - 1 are never read (line 97 runs only while
\* len(self.levels) < max_levels), so lists longer than max_levels add no behaviour:
\* they are kept for max_levels = 1, where the level-count test alone stops the growth
CacheConfigs ==
    UNION {{NewCache(maxl, caps) :
                caps \in {l \in CapacityLists : Len(l) <= maxl \/ maxl = 1}} :
           maxl \in 1..MaxLevels}

InitCache == /\ \E c \in CacheConfigs : /\ levels = c.levels
                                        /\ max_levels = c.max_levels
                                        /\ capacities = c.capacities
             /\ cache_op = NoCacheOp
             /\ last_written = NeverWritten
             /\ wpc = <<>>
             /\ wlocal = <<>>
             /\ wcalls = 0
             /\ LfuIdle
             /\ BookingIdle
             /\ TasksIdle

NextCache == \/ \E key \in Keys : Read(key)
             \/ \E key \in Keys : \E value \in Values : Write(key, value)
             \/ \E key \in Keys : CDelete(key)

SpecCache == InitCache /\ [][NextCache]_vars

\* the state BookingSystem and the venue are in when the threads start: register_venue,
\* then one update_time_slots(venue, slot list, tables_each) call as in demo.py 63-68;
\* set_time_slot stores tables_each and creates the slot's lock, slot by slot
SlotLists == {<<>>, <<"s1">>, <<"s1", "s2">>}
SlotIndex(slot_dt_list, s) == CHOOSE i \in 1..Len(slot_dt_list) : slot_dt_list[i] = s
SlotSet(slot_dt_list) == {slot_dt_list[i] : i \in 1..Len(slot_dt_list)}

InitBooking ==
    /\ \E slot_dt_list \in SlotLists : \E tables_each \in 0..MaxTables :
          /\ availability = [s \in SlotSet(slot_dt_list) |-> tables_each]
          /\ initial_tables = [s \in SlotSet(slot_dt_list) |-> tables_each]
          /\ slot_locks = [s \in SlotSet(slot_dt_list) |-> SlotIndex(slot_dt_list, s)]
          /\ lock_holder = [i \in 1..Len(slot_dt_list) |-> 0]
    /\ succeeded = [s \in Slots |-> 0]
    /\ updates = 0
    /\ calls_left = EmptyDict
    /\ venue_lock = 0
    /\ venues_lock = 0
    /\ bookings = <<>>
    /\ pc = [t \in Threads |-> "idle"]
    /\ call = [t \in Threads |-> NoCall]
    /\ result = [t \in Threads |-> "none"]
    /\ LfuIdle
    /\ CacheIdle
    /\ TasksIdle

\* the arguments a call is made with: every slot at the registered venue and at an
\* unknown venue id, plus one call per failing argument check
CallArgs ==
    {[slot |-> s, num_people |-> 1, in_window |-> TRUE, known |-> k] : s \in Slots, k \in BOOLEAN}
    \cup {[slot |-> "s1", num_people |-> 0, in_window |-> TRUE, known |-> TRUE],
          [slot |-> "s1", num_people |-> 1, in_window |-> FALSE, known |-> TRUE]}

NextBooking ==
    \E t \in Threads :
        \/ \E a \in CallArgs : BookCall(t, a.slot, a.num_people, a.in_window, a.known)
        \/ EnterGetVenue(t)
        \/ LookupVenue(t)
        \/ EnterGetSlotLock(t)
        \/ GetSlotLock(t)
        \/ AcquireSlotLock(t)
        \/ AcquireTimeout(t)
        \/ CheckAvailable(t)
        \/ DecrementCheck(t)
        \/ DecrementLoad(t)
        \/ DecrementStore(t)
        \/ EnterRecord(t)
        \/ RecordBooking(t)
        \/ ReleaseSlotLock(t)

SpecBooking == InitBooking /\ [][NextBooking]_vars

(***************************************************************************)
(* SpecCacheThreads: threads calling MultiLevelCache.write on one cache.   *)
(* MultiLevelCache and LFUStrategy take no lock, so the threads interleave *)
(* between the statements of write, of LFUStrategy.put and of              *)
(* _update_freq.  A step is one source line that reads or writes the       *)
(* shared objects; lines that touch only locals belong to the step before. *)
(***************************************************************************)
\* the locals of write: evicted, the index i of the for loop (1-based), new_capacity,
\* and new_level as the position in levels of the level this call appended; the locals
\* of the running put: lvl, the position in levels of the level it works on (its
\* arguments are evicted), evicted_item, lfu_key, and freq of _update_freq
MaxWrites == 3      \* SpecCacheThreads: write calls made in a run

NoWrite == [evicted |-> NoItem, i |-> 0, new_capacity |-> 0, new_level |-> 0,
            lvl |-> 0, evicted_item |-> NoItem, lfu_key |-> None, freq |-> 0]

\* write returns, or an exception leaves it
WriteReturn(t) ==
    /\ wpc' = [wpc EXCEPT ![t] = "idle"]
    /\ wlocal' = [wlocal EXCEPT ![t] = NoWrite]

\* what a step of write or put leaves alone besides levels, wpc and wlocal
WriteFrame ==
    /\ UNCHANGED <<max_levels, capacities, cache_op, last_written, wcalls>>
    /\ UNCHANGED <<lfuVars, bookingVars, taskVars>>

\* write is called: "evicted = (key, value)" and the for loop starts
WriteCall(t, key, value) ==
    /\ wpc[t] = "idle"
    /\ wcalls < MaxWrites
    /\ wcalls' = wcalls + 1
    /\ wpc' = [wpc EXCEPT ![t] = "loop"]
    /\ wlocal' = [wlocal EXCEPT ![t] = [NoWrite EXCEPT !.evicted = <<key, value>>, !.i = 1]]
    /\ UNCHANGED <<levels, max_levels, capacities, cache_op, last_written>>
    /\ UNCHANGED <<lfuVars, bookingVars, taskVars>>

\* line 89 with a next level: the list iterator yields it, which may be one another
\* thread appended, and line 90 calls its put
LoopPut(t) ==
    /\ wpc[t] = "loop"
    /\ wlocal[t].i <= Len(levels)
    /\ wpc' = [wpc EXCEPT ![t] = "p165"]
    /\ wlocal' = [wlocal EXCEPT ![t].lvl = wlocal[t].i]
    /\ UNCHANGED levels
    /\ WriteFrame

\* line 89 with the list iterator exhausted: the for loop ends
LoopEnd(t) ==
    /\ wpc[t] = "loop"
    /\ wlocal[t].i > Len(levels)
    /\ wpc' = [wpc EXCEPT ![t] = "check"]
    /\ UNCHANGED <<levels, wlocal>>
    /\ WriteFrame

\* "if len(self.levels) < self.max_levels"; otherwise write returns and the item is gone
GrowCheck(t) ==
    /\ wpc[t] = "check"
    /\ IF CanGrow(TheCache, Len(levels))
       THEN /\ wpc' = [wpc EXCEPT ![t] = "capacity"]
            /\ UNCHANGED wlocal
       ELSE WriteReturn(t)
    /\ UNCHANGED levels
    /\ WriteFrame

CapacityLookedUp(t, nc) ==
    IF nc.raised # "none"
    THEN WriteReturn(t)
    ELSE /\ wpc' = [wpc EXCEPT ![t] = "append"]
         /\ wlocal' = [wlocal EXCEPT ![t].new_capacity = nc.capacity]

\* "new_capacity = self.capacities[len(self.levels)]"; "new_level = CacheLevel(...)"
CapacityLookup(t) ==
    /\ wpc[t] = "capacity"
    /\ CapacityLookedUp(t, new_capacity(capacities, Len(levels)))
    /\ UNCHANGED levels
    /\ WriteFrame

\* "self.levels.append(new_level)"
AppendLevel(t) ==
    /\ wpc[t] = "append"
    /\ levels' = Append(levels, NewLFU(wlocal[t].new_capacity))
    /\ wpc' = [wpc EXCEPT ![t] = "new_put"]
    /\ wlocal' = [wlocal EXCEPT ![t].new_level = Len(levels) + 1]
    /\ WriteFrame

\* "new_level.put(*evicted)", on the level object this call created: put is called
NewLevelPut(t) ==
    /\ wpc[t] = "new_put"
    /\ wpc' = [wpc EXCEPT ![t] = "p165"]
    /\ wlocal' = [wlocal EXCEPT ![t].lvl = wlocal[t].new_level]
    /\ UNCHANGED levels
    /\ WriteFrame

\* freq_keys[freq] on the defaultdict: a missing bucket is created empty
Touch(fk, freq) == IF freq \in DOMAIN fk THEN fk ELSE DictSet(fk, freq, <<>>)

\* "bucket[key] = None" on an OrderedDict: a key already in it keeps its place
OrdAdd(od, k) == IF OrdHas(od, k) THEN od ELSE Append(od, k)

\* a line of put changed the level to s and control moves to the line named next
PutGoto(t, s, next) ==
    /\ levels' = [levels EXCEPT ![wlocal[t].lvl] = s]
    /\ wpc' = [wpc EXCEPT ![t] = next]
    /\ UNCHANGED wlocal

\* a line of put raised KeyError, having changed the level to s: the exception leaves
\* put and write
PutRaise(t, s) ==
    /\ levels' = [levels EXCEPT ![wlocal[t].lvl] = s]
    /\ WriteReturn(t)

\* put returns item to write: after "new_level.put" write ends; in the for loop
\* "if evicted is None: return", otherwise the loop goes on with the evicted item
PutReturn(t, item) ==
    IF wlocal[t].new_level # 0 \/ item = NoItem
    THEN WriteReturn(t)
    ELSE /\ wpc' = [wpc EXCEPT ![t] = "loop"]
         /\ wlocal' = [wlocal EXCEPT ![t] = [NoWrite EXCEPT !.evicted = item,
                                                            !.i = wlocal[t].i + 1]]

\* put, line 165: "if key in self.key_value"
PutTest(t) ==
    /\ wpc[t] = "p165"
    /\ PutGoto(t, levels[wlocal[t].lvl],
               IF wlocal[t].evicted[1] \in DOMAIN levels[wlocal[t].lvl].key_value
               THEN "p166" ELSE "p171")
    /\ WriteFrame

\* put, line 166: "self.key_value[key] = value"; line 167 calls _update_freq
PutUpdateValue(t) ==
    /\ wpc[t] = "p166"
    /\ PutGoto(t, [levels[wlocal[t].lvl] EXCEPT
                      !.key_value = StoreValue(@, wlocal[t].evicted[1], wlocal[t].evicted[2])],
               "u113")
    /\ WriteFrame

\* _update_freq, line 113: "freq = self.key_freq[key]"
FreqRead(t) ==
    /\ wpc[t] = "u113"
    /\ UNCHANGED levels
    /\ IF wlocal[t].evicted[1] \in DOMAIN levels[wlocal[t].lvl].key_freq
       THEN /\ wpc' = [wpc EXCEPT ![t] = "u116"]
            /\ wlocal' = [wlocal EXCEPT ![t].freq =
                              levels[wlocal[t].lvl].key_freq[wlocal[t].evicted[1]]]
       ELSE WriteReturn(t)
    /\ WriteFrame

\* the level after "del self.freq_keys[freq][key]" was tried
BucketTouched(t) ==
    [levels[wlocal[t].lvl] EXCEPT !.freq_keys = Touch(@, wlocal[t].freq)]

\* _update_freq, line 116: "del self.freq_keys[freq][key]"
BucketRemove(t) ==
    /\ wpc[t] = "u116"
    /\ IF OrdHas(BucketOf(levels[wlocal[t].lvl].freq_keys, wlocal[t].freq),
                 wlocal[t].evicted[1])
       THEN PutGoto(t, [levels[wlocal[t].lvl] EXCEPT
                           !.freq_keys[wlocal[t].freq] = OrdDel(@, wlocal[t].evicted[1])],
                    "u119")
       ELSE PutRaise(t, BucketTouched(t))
    /\ WriteFrame

\* _update_freq, line 119: "if not self.freq_keys[freq]"
BucketEmptyTest(t) ==
    /\ wpc[t] = "u119"
    /\ PutGoto(t, BucketTouched(t),
               IF BucketOf(levels[wlocal[t].lvl].freq_keys, wlocal[t].freq) = <<>>
               THEN "u120" ELSE "u126")
    /\ WriteFrame

\* _update_freq, line 120: "del self.freq_keys[freq]"
BucketDrop(t) ==
    /\ wpc[t] = "u120"
    /\ IF wlocal[t].freq \in DOMAIN levels[wlocal[t].lvl].freq_keys
       THEN PutGoto(t, [levels[wlocal[t].lvl] EXCEPT
                           !.freq_keys = DictDel(@, wlocal[t].freq)], "u122")
       ELSE PutRaise(t, levels[wlocal[t].lvl])
    /\ WriteFrame

\* _update_freq, line 122: "if self.min_freq == freq"
MinFreqTest(t) ==
    /\ wpc[t] = "u122"
    /\ PutGoto(t, levels[wlocal[t].lvl],
               IF levels[wlocal[t].lvl].min_freq = wlocal[t].freq THEN "u123" ELSE "u126")
    /\ WriteFrame

\* _update_freq, line 123: "self.min_freq += 1"
MinFreqBump(t) ==
    /\ wpc[t] = "u123"
    /\ PutGoto(t, [levels[wlocal[t].lvl] EXCEPT !.min_freq = @ + 1], "u126")
    /\ WriteFrame

\* _update_freq, line 126: "self.key_freq[key] += 1"
FreqBump(t) ==
    /\ wpc[t] = "u126"
    /\ IF wlocal[t].evicted[1] \in DOMAIN levels[wlocal[t].lvl].key_freq
       THEN PutGoto(t, [levels[wlocal[t].lvl] EXCEPT
                           !.key_freq[wlocal[t].evicted[1]] = @ + 1], "u127")
       ELSE PutRaise(t, levels[wlocal[t].lvl])
    /\ WriteFrame

\* _update_freq, line 127: "self.freq_keys[self.key_freq[key]][key] = None"; put returns
\* None at line 168
BucketAdd(t) ==
    /\ wpc[t] = "u127"
    /\ IF wlocal[t].evicted[1] \in DOMAIN levels[wlocal[t].lvl].key_freq
       THEN /\ levels' = [levels EXCEPT ![wlocal[t].lvl].freq_keys =
                  DictSet(@, levels[wlocal[t].lvl].key_freq[wlocal[t].evicted[1]],
                          OrdAdd(BucketOf(@, levels[wlocal[t].lvl].key_freq[wlocal[t].evicted[1]]),
                                 wlocal[t].evicted[1]))]
            /\ PutReturn(t, NoItem)
       ELSE PutRaise(t, levels[wlocal[t].lvl])
    /\ WriteFrame

\* put, line 171: "if len(self.key_value) >= self.capacity"
PutFullTest(t) ==
    /\ wpc[t] = "p171"
    /\ PutGoto(t, levels[wlocal[t].lvl],
               IF IsFull(levels[wlocal[t].lvl]) THEN "p174" ELSE "p186")
    /\ WriteFrame

\* put, line 174: "lfu_key, _ = self.freq_keys[self.min_freq].popitem(last=False)"
PutPopVictim(t) ==
    /\ wpc[t] = "p174"
    /\ IF BucketOf(levels[wlocal[t].lvl].freq_keys, VictimFreq(levels[wlocal[t].lvl])) = <<>>
       THEN PutRaise(t, [levels[wlocal[t].lvl] EXCEPT
                            !.freq_keys = Touch(@, VictimFreq(levels[wlocal[t].lvl]))])
       ELSE /\ levels' = [levels EXCEPT
                  ![wlocal[t].lvl].freq_keys[VictimFreq(levels[wlocal[t].lvl])] = Tail(@)]
            /\ wpc' = [wpc EXCEPT ![t] = "p175"]
            /\ wlocal' = [wlocal EXCEPT ![t].lfu_key =
                  PopVictim(levels[wlocal[t].lvl].freq_keys[VictimFreq(levels[wlocal[t].lvl])])]
    /\ WriteFrame

\* put, line 175: "evicted_item = (lfu_key, self.key_value[lfu_key])"
PutReadVictim(t) ==
    /\ wpc[t] = "p175"
    /\ UNCHANGED levels
    /\ IF wlocal[t].lfu_key \in DOMAIN levels[wlocal[t].lvl].key_value
       THEN /\ wpc' = [wpc EXCEPT ![t] = "p178"]
            /\ wlocal' = [wlocal EXCEPT ![t].evicted_item =
                  <<wlocal[t].lfu_key, levels[wlocal[t].lvl].key_value[wlocal[t].lfu_key]>>]
       ELSE WriteReturn(t)
    /\ WriteFrame

\* put, line 178: "del self.key_value[lfu_key]"
PutDelValue(t) ==
    /\ wpc[t] = "p178"
    /\ IF wlocal[t].lfu_key \in DOMAIN levels[wlocal[t].lvl].key_value
       THEN PutGoto(t, [levels[wlocal[t].lvl] EXCEPT
                           !.key_value = DictDel(@, wlocal[t].lfu_key)], "p179")
       ELSE PutRaise(t, levels[wlocal[t].lvl])
    /\ WriteFrame

\* put, line 179: "del self.key_freq[lfu_key]"
PutDelFreq(t) ==
    /\ wpc[t] = "p179"
    /\ IF wlocal[t].lfu_key \in DOMAIN levels[wlocal[t].lvl].key_freq
       THEN PutGoto(t, [levels[wlocal[t].lvl] EXCEPT
                           !.key_freq = DictDel(@, wlocal[t].lfu_key)], "p182")
       ELSE PutRaise(t, levels[wlocal[t].lvl])
    /\ WriteFrame

\* put, line 182: "if not self.freq_keys[self.min_freq]"
PutBucketTest(t) ==
    /\ wpc[t] = "p182"
    /\ PutGoto(t, [levels[wlocal[t].lvl] EXCEPT
                      !.freq_keys = Touch(@, levels[wlocal[t].lvl].min_freq)],
               IF BucketOf(levels[wlocal[t].lvl].freq_keys,
                           levels[wlocal[t].lvl].min_freq) = <<>>
               THEN "p183" ELSE "p186")
    /\ WriteFrame

\* put, line 183: "del self.freq_keys[self.min_freq]"
PutBucketDrop(t) ==
    /\ wpc[t] = "p183"
    /\ IF levels[wlocal[t].lvl].min_freq \in DOMAIN levels[wlocal[t].lvl].freq_keys
       THEN PutGoto(t, [levels[wlocal[t].lvl] EXCEPT
                           !.freq_keys = DictDel(@, levels[wlocal[t].lvl].min_freq)],
                    "p186")
       ELSE PutRaise(t, levels[wlocal[t].lvl])
    /\ WriteFrame

\* put, line 186: "self.key_value[key] = value"
PutInsertValue(t) ==
    /\ wpc[t] = "p186"
    /\ PutGoto(t, [levels[wlocal[t].lvl] EXCEPT
                      !.key_value = StoreValue(@, wlocal[t].evicted[1], wlocal[t].evicted[2])],
               "p187")
    /\ WriteFrame

\* put, line 187: "self.key_freq[key] = 1"
PutInsertFreq(t) ==
    /\ wpc[t] = "p187"
    /\ PutGoto(t, [levels[wlocal[t].lvl] EXCEPT
                      !.key_freq = DictSet(@, wlocal[t].evicted[1], 1)], "p188")
    /\ WriteFrame

\* put, line 188: "self.freq_keys[1][key] = None"
PutInsertBucket(t) ==
    /\ wpc[t] = "p188"
    /\ PutGoto(t, [levels[wlocal[t].lvl] EXCEPT
                      !.freq_keys = DictSet(@, 1, OrdAdd(BucketOf(@, 1), wlocal[t].evicted[1]))],
               "p189")
    /\ WriteFrame

\* put, line 189: "self.min_freq = 1"; line 191 returns evicted_item
PutSetMin(t) ==
    /\ wpc[t] = "p189"
    /\ levels' = [levels EXCEPT ![wlocal[t].lvl].min_freq = 1]
    /\ PutReturn(t, wlocal[t].evicted_item)
    /\ WriteFrame

\* the lines of LFUStrategy.put and _update_freq
PutLine(t) ==
    \/ PutTest(t)
    \/ PutUpdateValue(t)
    \/ FreqRead(t)
    \/ BucketRemove(t)
    \/ BucketEmptyTest(t)
    \/ BucketDrop(t)
    \/ MinFreqTest(t)
    \/ MinFreqBump(t)
    \/ FreqBump(t)
    \/ BucketAdd(t)
    \/ PutFullTest(t)
    \/ PutPopVictim(t)
    \/ PutReadVictim(t)
    \/ PutDelValue(t)
    \/ PutDelFreq(t)
    \/ PutBucketTest(t)
    \/ PutBucketDrop(t)
    \/ PutInsertValue(t)
    \/ PutInsertFreq(t)
    \/ PutInsertBucket(t)
    \/ PutSetMin(t)

InitCacheThreads ==
    /\ \E c \in CacheConfigs : /\ levels = c.levels
                               /\ max_levels = c.max_levels
                               /\ capacities = c.capacities
    /\ cache_op = NoCacheOp
    /\ last_written = NeverWritten
    /\ wpc = [t \in Threads |-> "idle"]
    /\ wlocal = [t \in Threads |-> NoWrite]
    /\ wcalls = 0
    /\ LfuIdle
    /\ BookingIdle
    /\ TasksIdle

NextCacheThreads ==
    \E t \in Threads :
        \/ \E key \in Keys : \E value \in Values : WriteCall(t, key, value)
        \/ LoopPut(t)
        \/ LoopEnd(t)
        \/ GrowCheck(t)
        \/ CapacityLookup(t)
        \/ AppendLevel(t)
        \/ NewLevelPut(t)
        \/ PutLine(t)

SpecCacheThreads == InitCacheThreads /\ [][NextCacheThreads]_vars

\* the arguments update_time_slots is called with
UpdateArgs ==
    {[slot_dt_list |-> l, tables_each |-> n, known |-> TRUE] :
        l \in UpdateLists, n \in 0..MaxTables}
    \cup {[slot_dt_list |-> <<"s1">>, tables_each |-> -1, known |-> TRUE],
          [slot_dt_list |-> <<"s1">>, tables_each |-> 1, known |-> FALSE]}

ThreadStep(t) ==
    \/ EnterGetVenue(t)
    \/ LookupVenue(t)
    \/ EnterGetSlotLock(t)
    \/ GetSlotLock(t)
    \/ AcquireSlotLock(t)
    \/ AcquireTimeout(t)
    \/ CheckAvailable(t)
    \/ DecrementCheck(t)
    \/ DecrementLoad(t)
    \/ DecrementStore(t)
    \/ EnterRecord(t)
    \/ RecordBooking(t)
    \/ ReleaseSlotLock(t)
    \/ UpdateEnterGetVenue(t)
    \/ UpdateLookupVenue(t)
    \/ UpdateValidate(t)
    \/ EnterSetTimeSlot(t)
    \/ SetTimeSlot(t)
    \/ EnterVenuesOp(t)
    \/ LeaveVenuesOp(t)

NextBookingOps ==
    \E t \in Threads :
        \/ \E s \in Slots : BookCall(t, s, 1, TRUE, TRUE)
        \/ \E a \in UpdateArgs : UpdateCall(t, a.slot_dt_list, a.tables_each, a.known)
        \/ VenuesCall(t)
        \/ ThreadStep(t)

\* one venue with slot "s1" configured with one table; "s2" is not registered
InitBookingOps ==
    /\ availability = [s \in {"s1"} |-> 1]
    /\ initial_tables = [s \in {"s1"} |-> 1]
    /\ slot_locks = [s \in {"s1"} |-> 1]
    /\ lock_holder = <<0>>
    /\ succeeded = [s \in Slots |-> 0]
    /\ updates = 0
    /\ calls_left = EmptyDict
    /\ venue_lock = 0
    /\ venues_lock = 0
    /\ bookings = <<>>
    /\ pc = [t \in Threads |-> "idle"]
    /\ call = [t \in Threads |-> NoCall]
    /\ result = [t \in Threads |-> "none"]
    /\ LfuIdle
    /\ CacheIdle
    /\ TasksIdle

SpecBookingOps == InitBookingOps /\ [][NextBookingOps]_vars

\* the venue of InitBookingOps, used by threads that make at most MaxCalls calls each
InitFairOps ==
    /\ availability = [s \in {"s1"} |-> 1]
    /\ initial_tables = [s \in {"s1"} |-> 1]
    /\ slot_locks = [s \in {"s1"} |-> 1]
    /\ lock_holder = <<0>>
    /\ succeeded = [s \in Slots |-> 0]
    /\ updates = 0
    /\ calls_left = [t \in Threads |-> MaxCalls]
    /\ venue_lock = 0
    /\ venues_lock = 0
    /\ bookings = <<>>
    /\ pc = [t \in Threads |-> "idle"]
    /\ call = [t \in Threads |-> NoCall]
    /\ result = [t \in Threads |-> "none"]
    /\ LfuIdle
    /\ CacheIdle
    /\ TasksIdle

\* fair scheduling: a thread whose next statement can run from some moment on without
\* interruption eventually runs it. Nothing is assumed about who wins a lock: a thread
\* waiting for a lock that is taken again and again may lose every time.
FairBookingOps ==
    InitFairOps /\ [][NextBookingOps]_vars /\ \A t \in Threads : WF_vars(ThreadStep(t))

\* ids a caller can pass: those of tasks created so far (stored or deleted) and 0,
\* an id no task has; the id of a task not yet created cannot be known
KnownIds == 0..(next_id - 1)
StoryLists == {<<>>} \cup {<<a>> : a \in KnownIds}
                     \cup {p \in KnownIds \X KnownIds : p[1] < p[2]}

InitTasks ==
    /\ TasksIdle
    /\ LfuIdle
    /\ CacheIdle
    /\ BookingIdle

NextTasks ==
    \/ Login
    \/ Logout
    \/ \E title \in Titles : CreateTask(title)
    \/ \E title \in Titles : \E parent \in KnownIds : CreateSubtask(parent, title)
    \/ \E title \in Titles : \E task_ids \in StoryLists : CreateStory(title, task_ids)
    \/ \E task_id \in KnownIds : DeleteTask(task_id)
    \/ \E task_id \in KnownIds : \E parent \in KnownIds \cup {NoTask} :
           MoveTask(task_id, parent)

SpecTasks == InitTasks /\ [][NextTasks]_vars


(***************************************************************************)
(* Properties                                                              *)
(***************************************************************************)

\* the positions of book_table between a successful acquire of the slot lock and its release
InCriticalSection(t) ==
    pc[t] \in {"locked", "decrement", "dec_load", "dec_store", "record", "in_record", "release"}

\* C1: for any number of threads calling book_table on the same venue slot, at most one
\* thread at a time is inside the section guarded by the slot's lock (read availability,
\* decrement, record booking).
C1_MutualExclusion ==
    \A t1 \in Threads : \A t2 \in Threads :
        (t1 # t2 /\ InCriticalSection(t1) /\ InCriticalSection(t2))
            => call[t1].slot # call[t2].slot

\* C1 witness: one thread is in the middle of the decrement while another thread waits
\* to acquire the lock of the same slot.
C1_Witness ==
    \E t1 \in Threads : \E t2 \in Threads :
        /\ t1 # t2
        /\ pc[t1] = "dec_store"
        /\ pc[t2] = "acquire"
        /\ call[t1].slot = call[t2].slot

Booked(s) == Cardinality({i \in 1..Len(bookings) : bookings[i] = s})
AllIdle   == \A t \in Threads : pc[t] = "idle"

\* C2: no overbooking. For a slot configured once with n tables and any number of
\* concurrent book_table calls, at most n calls succeed, the availability is never below
\* 0, and once all calls have finished n minus the availability equals the number of
\* bookings recorded for the slot.
C2_NoOverbooking ==
    \A s \in DOMAIN initial_tables :
        /\ availability[s] >= 0
        /\ succeeded[s] <= initial_tables[s]
        /\ Booked(s) <= initial_tables[s]
        /\ AllIdle => /\ initial_tables[s] - availability[s] = Booked(s)
                      /\ succeeded[s] = Booked(s)

\* C2 witness: every call has finished, a slot with at least two tables is sold out, and
\* one of the calls was turned away for lack of a table.
C2_Witness ==
    /\ AllIdle
    /\ \E s \in DOMAIN initial_tables :
          /\ initial_tables[s] >= 2
          /\ availability[s] = 0
          /\ Booked(s) = initial_tables[s]
    /\ \E t \in Threads : result[t] = "SlotUnavailableError"
    /\ \E t \in Threads : result[t] = "booked"

LevelsHolding(k) == {i \in 1..Len(levels) : k \in Resident(levels[i])}

\* C3: key uniqueness across tiers. After any sequence of read, write and delete every
\* key is resident in at most one tier.
C3_KeyUniqueAcrossTiers ==
    \A k \in Keys : Cardinality(LevelsHolding(k)) <= 1

\* the (frequency, position) places at which key k sits in the buckets
Places(s, k) ==
    {p \in UNION {{<<f, i>> : i \in 1..Len(s.freq_keys[f])} : f \in DOMAIN s.freq_keys} :
        s.freq_keys[p[1]][p[2]] = k}

WellFormed(s) ==
    /\ DOMAIN s.key_value = DOMAIN s.key_freq
    /\ \A k \in DOMAIN s.key_value :
          /\ Cardinality(Places(s, k)) = 1
          /\ \A p \in Places(s, k) : p[1] = s.key_freq[k]
    /\ \A f \in DOMAIN s.freq_keys :
          /\ s.freq_keys[f] # <<>>
          /\ \A i \in 1..Len(s.freq_keys[f]) : s.freq_keys[f][i] \in DOMAIN s.key_value

\* C4: LFU bookkeeping is well-formed after any sequence of get/put/delete on a tier of
\* capacity >= 1: key_value and key_freq have the same keys, every resident key is in
\* exactly one bucket, the one of its recorded frequency, buckets hold no non-resident
\* key and freq_keys has no empty bucket.
C4_LFUWellFormed == strategy.capacity >= 1 => WellFormed(strategy)

\* C4 witness: a delete emptied and removed the frequency-1 bucket and left a key in a
\* higher bucket.
C4_Witness ==
    /\ strategy.capacity >= 2
    /\ lfu_op.name = "delete"
    /\ Size(strategy) = 1
    /\ 1 \notin DOMAIN strategy.freq_keys
    /\ \E k \in Resident(strategy) : strategy.key_freq[k] >= 2

\* C5: whenever the store is non-empty (capacity >= 1) the bucket of min_freq exists and
\* is non-empty and min_freq is the minimum frequency of the resident keys.
C5_MinFreq ==
    (strategy.capacity >= 1 /\ Resident(strategy) # {}) =>
        /\ strategy.min_freq \in DOMAIN strategy.freq_keys
        /\ strategy.freq_keys[strategy.min_freq] # <<>>
        /\ \A k \in Resident(strategy) : strategy.key_freq[k] >= strategy.min_freq
        /\ \E k \in Resident(strategy) : strategy.key_freq[k] = strategy.min_freq

\* C5 witness: a delete removed the last key of the minimum bucket and min_freq moved up
\* to the bucket of the key that is left.
C5_Witness ==
    /\ strategy.capacity >= 2
    /\ lfu_op.name = "delete"
    /\ Size(strategy) = 1
    /\ strategy.min_freq >= 2

SumOver(f, n) ==
    LET sum[i \in 0..n] == IF i = 0 THEN 0 ELSE sum[i - 1] + f[i]
    IN  sum[n]
TotalSize     == SumOver([i \in 1..Len(levels) |-> Size(levels[i])], Len(levels))
TotalCapacity == SumOver([i \in 1..Len(levels) |-> levels[i].capacity], Len(levels))

TierBounds ==
    /\ \A i \in 1..Len(levels) : Size(levels[i]) <= levels[i].capacity
    /\ TotalSize <= TotalCapacity

\* a tier that was full before the step and holds a new key after it has lost exactly
\* one key and is still exactly full
FullTierKeepsSize ==
    \A i \in 1..Len(levels) :
        (/\ levels[i].capacity >= 1
         /\ Size(levels[i]) = levels[i].capacity
         /\ Resident(levels'[i]) \ Resident(levels[i]) # {})
        => /\ Cardinality(Resident(levels'[i]) \ Resident(levels[i])) = 1
           /\ Cardinality(Resident(levels[i]) \ Resident(levels'[i])) = 1
           /\ Size(levels'[i]) = levels[i].capacity

\* C6: capacity bound. A tier never holds more entries than its capacity, a put of a
\* new key into a full tier (capacity >= 1) evicts exactly one entry so the tier still
\* holds exactly capacity entries, and the whole cache never holds more than the sum of
\* the capacities of its tiers.
C6_CapacityBound == []TierBounds /\ [][FullTierKeepsSize]_vars

\* C6 witness: a write went through two full tiers and dropped an entry; both tiers are
\* still exactly full.
C6_Witness ==
    /\ cache_op.name = "write"
    /\ cache_op.dropped # NoItem
    /\ cache_op.raised = "none"
    /\ Len(levels) = 2
    /\ \A i \in 1..Len(levels) : levels[i].capacity >= 1 /\ Size(levels[i]) = levels[i].capacity

\* the step is a put of a key that is not resident into a full tier of capacity >= 1
EvictingPut ==
    /\ lfu_op'.name = "put"
    /\ lfu_op'.key \notin Resident(strategy)
    /\ strategy.capacity >= 1
    /\ Size(strategy) >= strategy.capacity

InSomeBucket(s, k) == \E f \in DOMAIN s.freq_keys : OrdHas(s.freq_keys[f], k)

\* C7: eviction picks a least-frequently-used key. When put inserts a new key into a
\* full tier, the evicted key's frequency is the minimum over the keys resident before
\* the put, the returned pair is that key with its stored value, and the key is removed
\* from the value store, the frequency map and its bucket.
C7_EvictsLeastFrequent ==
    [][EvictingPut =>
        /\ lfu_op'.raised = "none"
        /\ lfu_op'.evicted # NoItem
        /\ lfu_op'.evicted[1] \in Resident(strategy)
        /\ \A k \in Resident(strategy) :
              strategy.key_freq[lfu_op'.evicted[1]] <= strategy.key_freq[k]
        /\ lfu_op'.evicted[2] = strategy.key_value[lfu_op'.evicted[1]]
        /\ lfu_op'.evicted[1] \notin DOMAIN strategy'.key_value
        /\ lfu_op'.evicted[1] \notin DOMAIN strategy'.key_freq
        /\ ~InSomeBucket(strategy', lfu_op'.evicted[1])]_vars

\* C7 witness: a put evicted a key while a key of higher frequency stayed resident.
C7_Witness ==
    /\ lfu_op.name = "put"
    /\ lfu_op.evicted # NoItem
    /\ strategy.capacity >= 2
    /\ \E k \in Resident(strategy) : strategy.key_freq[k] >= 2

\* the keys of minimum frequency, computed from key_freq alone
LeastFrequent(s) ==
    {k \in Resident(s) : \A j \in Resident(s) : s.key_freq[k] <= s.key_freq[j]}
\* the key of set S that was inserted or bumped longest ago
Oldest(order, S) ==
    order[MinOf({i \in 1..Len(order) : order[i] \in S})]

\* C8: FIFO tie-break. Among the resident keys that share the minimum frequency the
\* eviction victim is the one that entered that frequency bucket earliest (capacity 2:
\* put a, put b, put c evicts a; put a, put b, get a, put c evicts b).
C8_FifoTieBreak ==
    [][EvictingPut =>
        /\ lfu_op'.evicted # NoItem
        /\ lfu_op'.evicted[1] = Oldest(touch_order, LeastFrequent(strategy))]_vars

\* C8 witness: capacity 2, a put evicted a key although the key that stayed has
\* frequency 1 as well: the two were tied and the older one went.
C8_Witness ==
    /\ strategy.capacity = 2
    /\ lfu_op.name = "put"
    /\ lfu_op.evicted # NoItem
    /\ \E k \in Resident(strategy) : k # lfu_op.key /\ strategy.key_freq[k] = 1

\* C9: for every sequence of puts that inserts no more distinct keys than the capacity
\* (repeated puts of a key allowed), no put reports an eviction and a get of every
\* inserted key returns the value of the last put for that key.
C9_PutsWithinCapacity ==
    put_hist.valid =>
        /\ lfu_op.name = "put" => (lfu_op.evicted = NoItem /\ lfu_op.raised = "none")
        /\ (lfu_op.name = "get" /\ lfu_op.key \in DOMAIN put_hist.last)
              => lfu_op.ret = put_hist.last[lfu_op.key]
        /\ \A k \in DOMAIN put_hist.last : LFUGet(strategy, k).ret = put_hist.last[k]

\* C9 witness: capacity-many keys were put, one of them again with another value, and
\* a get returned a stored value.
C9_Witness ==
    /\ put_hist.valid
    /\ put_hist.overwrote
    /\ strategy.capacity >= 2
    /\ Cardinality(DOMAIN put_hist.last) = strategy.capacity
    /\ lfu_op.name = "get"
    /\ lfu_op.ret # None

\* the step is a read of a key that tier 0 does not hold and a slower tier does
PromotingRead ==
    /\ cache_op'.name = "read"
    /\ LevelsHolding(cache_op'.key) # {}
    /\ 1 \notin LevelsHolding(cache_op'.key)
\* the value read finds: the one stored in the first tier that holds the key
FoundValue == levels[MinOf(LevelsHolding(cache_op'.key))].key_value[cache_op'.key]

PromotedToTier0 ==
    /\ cache_op'.key \in Resident(levels'[1])
    /\ levels'[1].key_value[cache_op'.key] = FoundValue

\* C10 as claimed: when read(key) first finds the key in a tier with index i > 0 it
\* returns the value stored there and re-inserts it through the write path, so that
\* right after the read the key is resident in tier 0 with that value.
C10_ReadPromotionReturns ==
    [][PromotingRead => (cache_op'.ret = FoundValue /\ PromotedToTier0)]_vars

\* C10 amended: the key is resident in tier 0 with the value found right after the
\* read; read returns that value unless the promoting write raises (IndexError for a
\* tier without configured capacity, KeyError from a tier of capacity 0), in which case
\* the exception leaves read.
C10_ReadPromotion ==
    [][PromotingRead =>
        /\ PromotedToTier0
        /\ cache_op'.raised \in {"none", "IndexError", "KeyError"}
        /\ cache_op'.raised = "none" => cache_op'.ret = FoundValue]_vars

\* C10 witness: a read hit in a slower tier, returned the value, and tier 0 now holds
\* the key with it.
C10_Witness ==
    /\ cache_op.name = "read"
    /\ cache_op.hit > 1
    /\ cache_op.raised = "none"
    /\ cache_op.ret # None
    /\ cache_op.key \in Resident(levels[1])
    /\ levels[1].key_value[cache_op.key] = cache_op.ret

\* the step is a write call (not the write a read makes to promote)
WriteStep == cache_op'.name = "write"
\* what the put logged at position j returns on the level as it was before the write
PutResult(j) ==
    LFUPut(levels[j], cache_op'.puts[j].item[1], cache_op'.puts[j].item[2])

\* the put logged at position j, r being what it returns on the level as it was before
\* the write (n puts were logged, old levels existed)
PutInOrder(j, r, n, old) ==
    \* the level that was put holds what the put left
    /\ levels'[j] = r.s
    \* a put is made on the next level only with what this level evicted
    /\ j < n => /\ r.raised = "none"
                /\ r.evicted # NoItem
                /\ cache_op'.puts[j + 1].item = r.evicted
    \* the cascade goes on while evictions are reported and existing levels remain
    /\ (j = n /\ n < old) => (r.raised # "none" \/ r.evicted = NoItem)

\* the put calls of the write, checked against the levels before and after the step
CascadeInOrder ==
    /\ Len(cache_op'.puts) >= 1
    /\ Len(cache_op'.puts) <= Len(levels) + 1
    /\ cache_op'.puts[1] = [level |-> 1, item |-> <<cache_op'.key, cache_op'.value>>]
    /\ \A j \in 1..Len(cache_op'.puts) :
          /\ cache_op'.puts[j].level = j
          /\ j <= Len(levels) =>
                PutInOrder(j, PutResult(j), Len(cache_op'.puts), Len(levels))
    \* the levels after the last put are untouched
    /\ \A i \in (Len(cache_op'.puts) + 1)..Len(levels) : levels'[i] = levels[i]
    /\ Len(levels') >= Len(levels)

\* C11: write cascade order. write(key, value) puts the pair into tier 0; each tier's
\* evicted entry becomes the put input of the next tier, in strictly increasing tier
\* index; the cascade stops at the first tier whose put reports no eviction, and every
\* tier after that one is left completely unchanged.
C11_WriteCascadeOrder == [][WriteStep => CascadeInOrder]_vars

\* C11 witness: a write put the pair into tier 0, put what tier 0 evicted into tier 1,
\* and stopped there because tier 1 reported no eviction.
C11_Witness ==
    /\ cache_op.name = "write"
    /\ cache_op.raised = "none"
    /\ cache_op.dropped = NoItem
    /\ Len(cache_op.puts) = 2
    /\ cache_op.puts[2].item[1] # cache_op.key
    /\ Len(levels) = 2
    /\ cache_op.key \in Resident(levels[1])
    /\ cache_op.puts[2].item[1] \in Resident(levels[2])

\* the step is a write on a cache that has max_levels tiers, and the last tier evicted:
\* the put log covers every tier and the last put reported an eviction
ExhaustingWrite ==
    /\ WriteStep
    /\ Len(levels) = max_levels
    /\ Len(cache_op'.puts) = Len(levels)
    /\ PutResult(Len(levels)).raised = "none"
    /\ PutResult(Len(levels)).evicted # NoItem

\* the (key, value) pairs a tier holds
Entries(s) == {<<k, s.key_value[k]>> : k \in Resident(s)}

\* C13: capacity exhaustion. When the number of tiers equals max_levels and the last
\* tier also evicts during a write, that evicted entry ends up in no tier and the write
\* completes normally without raising.
C13_ExhaustionDrops ==
    [][ExhaustingWrite =>
        /\ cache_op'.raised = "none"
        /\ cache_op'.dropped = PutResult(Len(levels)).evicted
        /\ Len(levels') = Len(levels)
        /\ \A i \in 1..Len(levels') : cache_op'.dropped \notin Entries(levels'[i])]_vars

\* the step is a write whose cascade ran through every existing tier and the last of
\* them evicted
AllTiersEvicted ==
    /\ WriteStep
    /\ Len(cache_op'.puts) >= Len(levels)
    /\ PutResult(Len(levels)).raised = "none"
    /\ PutResult(Len(levels)).evicted # NoItem

TierCreated == Len(levels') > Len(levels)

\* the tier a write appended has the capacity configured for its index
NewTierCapacity ==
    /\ Len(levels') = Len(levels) + 1
    /\ Len(capacities) >= Len(levels')
    /\ levels'[Len(levels')].capacity = capacities[Len(levels')]

\* C12 as claimed: a write creates a new tier exactly when every existing tier evicted
\* during the cascade and the number of tiers is below max_levels; at most one tier is
\* created per write, its capacity is capacities[index of the new tier], and right after
\* the write it contains exactly the entry evicted from the previously last tier.
C12_LazyTierCreationAlways ==
    [][WriteStep =>
        /\ TierCreated <=> (AllTiersEvicted /\ Len(levels) < max_levels)
        /\ TierCreated =>
              /\ NewTierCapacity
              /\ Entries(levels'[Len(levels')]) = {PutResult(Len(levels)).evicted}]_vars

\* C12 amended: a write creates a new tier exactly when every existing tier evicted
\* during the cascade, the number of tiers is below max_levels and capacities has an
\* entry at the new tier's index (without one the write raises IndexError and creates
\* nothing); at most one tier is created per write and its capacity is
\* capacities[index of the new tier]; a new tier of capacity >= 1 contains right after
\* the write exactly the entry evicted from the previously last tier, a new tier of
\* capacity 0 is left empty and the write raises KeyError.
C12_LazyTierCreation ==
    [][WriteStep =>
        /\ TierCreated <=> (/\ AllTiersEvicted
                            /\ Len(levels) < max_levels
                            /\ Len(capacities) > Len(levels))
        /\ (AllTiersEvicted /\ Len(levels) < max_levels /\ Len(capacities) <= Len(levels))
              => cache_op'.raised = "IndexError"
        /\ TierCreated =>
              /\ NewTierCapacity
              /\ levels'[Len(levels')].capacity >= 1 =>
                    /\ Entries(levels'[Len(levels')]) = {PutResult(Len(levels)).evicted}
                    /\ cache_op'.raised = "none"
              /\ levels'[Len(levels')].capacity = 0 =>
                    /\ Entries(levels'[Len(levels')]) = {}
                    /\ cache_op'.raised = "KeyError"]_vars

\* C12 witness: a write found tier 0 full, appended tier 1 with its configured
\* capacity, and tier 1 holds exactly the entry pushed out of tier 0.
C12_Witness ==
    /\ cache_op.name = "write"
    /\ cache_op.raised = "none"
    /\ cache_op.tiers = 1
    /\ Len(levels) = 2
    /\ Len(cache_op.puts) = 2
    /\ levels[2].capacity = capacities[2]
    /\ Entries(levels[2]) = {cache_op.puts[2].item}

\* what the caller of write gets back: the return value and the exception
Observed(op) == <<op.ret, op.raised>>

\* C14: a permanent drop is observable. Whenever a write drops an entry from the last
\* tier of a maxed-out tier stack, the caller can observe which entry was dropped
\* through the result of the write and can distinguish that write from one that dropped
\* nothing (which gives back None and raises nothing).
C14_DropObservable ==
    (/\ cache_op.name = "write"
     /\ cache_op.tiers = max_levels
     /\ cache_op.dropped # NoItem)
    => /\ Observed(cache_op) # <<None, "none">>
       /\ cache_op.ret = cache_op.dropped

DeleteStep == cache_op'.name = "delete"

\* what a tier records about key k: its value and frequency, or nothing
EntryOf(s, k) == IF k \in Resident(s) THEN <<s.key_value[k], s.key_freq[k]>> ELSE NoItem

\* C15: delete-through. delete(key) invokes delete on every existing tier, so that
\* immediately afterwards no tier holds the key (stale duplicate copies included) and
\* read(key) returns absent; the entries of all other keys are unchanged in every tier.
C15_DeleteThrough ==
    [][DeleteStep =>
        /\ Len(levels') = Len(levels)
        /\ \A i \in 1..Len(levels') :
              /\ cache_op'.key \notin Resident(levels'[i])
              /\ cache_op'.key \notin DOMAIN levels'[i].key_freq
              /\ ~InSomeBucket(levels'[i], cache_op'.key)
              /\ \A k \in Keys \ {cache_op'.key} :
                    EntryOf(levels'[i], k) = EntryOf(levels[i], k)
        /\ CacheRead([levels |-> levels', max_levels |-> max_levels',
                      capacities |-> capacities'], cache_op'.key).ret = None]_vars

\* C15 witness: a delete removed a key that two tiers held (a stale duplicate).
C15_Witness ==
    /\ cache_op.name = "delete"
    /\ Cardinality(cache_op.held) >= 2
    /\ \A i \in 1..Len(levels) : cache_op.key \notin Resident(levels[i])

TiersKept ==
    /\ Len(levels') >= Len(levels)
    /\ \A i \in 1..Len(levels) : levels'[i].capacity = levels[i].capacity

\* C16: tier growth is monotonic and bounded. The cache starts with exactly one tier,
\* the number of tiers never decreases under any operation, never exceeds max_levels
\* (max_levels >= 1), and the capacity of an existing tier never changes.
C16_TierGrowth ==
    /\ Len(levels) = 1
    /\ [](Len(levels) <= max_levels)
    /\ [](\A i \in 1..Len(levels) : levels[i].capacity = capacities[i])
    /\ [][TiersKept]_vars

\* C16 witness: the cache has grown to max_levels tiers and a further write that ran
\* through all of them dropped an entry instead of growing again.
C16_Witness ==
    /\ max_levels >= 2
    /\ Len(levels) = max_levels
    /\ cache_op.name = "write"
    /\ cache_op.tiers = max_levels
    /\ cache_op.dropped # NoItem

\* the step is a write that has to create a tier for which capacities has no entry
MissingCapacity ==
    /\ AllTiersEvicted
    /\ Len(levels) < max_levels
    /\ Len(capacities) <= Len(levels)

\* C17: missing capacity is reported. When a write must create a tier at index
\* n < max_levels but capacities has no entry at index n, the write fails with an
\* error; it never creates the tier with a capacity reused from an earlier index and
\* never silently completes.
C17_MissingCapacityReported ==
    [][MissingCapacity =>
        /\ cache_op'.raised = "IndexError"
        /\ Len(levels') = Len(levels)]_vars

\* C17 witness: a write on a cache that may have three tiers and has capacities for
\* two ran through both tiers and raised IndexError.
C17_Witness ==
    /\ cache_op.name = "write"
    /\ cache_op.raised = "IndexError"
    /\ cache_op.tiers = 2
    /\ Len(cache_op.puts) = 2
    /\ Len(levels) = 2
    /\ Len(capacities) = 2
    /\ max_levels = 3

\* C18: capacity 0 is degenerate but does not crash. On a tier of capacity 0 every put
\* of a new key completes without raising, reports an eviction, and the item just
\* inserted is the one evicted, so the tier never retains an entry.
C18_CapacityZeroPut ==
    (strategy.capacity = 0 /\ lfu_op.name = "put")
    => /\ lfu_op.raised = "none"
       /\ lfu_op.evicted = <<lfu_op.key, lfu_op.value>>
       /\ Resident(strategy) = {}

\* the positions of book_table before the slot lock is acquired
BeforeAcquire ==
    {"idle", "get_venue", "in_get_venue", "get_slot_lock", "in_get_slot_lock", "acquire"}

\* the step is taken by thread t
StepOf(t) == <<pc[t], call[t], result[t]>>' # <<pc[t], call[t], result[t]>>

HeldLocks(t) == {l \in DOMAIN lock_holder : lock_holder[l] = t}

\* what thread t's step does while its call has not acquired the slot lock
CleanBeforeAcquire(t) ==
    \* up to and including the acquire the call changes neither availability nor bookings
    /\ (StepOf(t) /\ pc[t] \in BeforeAcquire) =>
          /\ availability' = availability
          /\ bookings' = bookings
          /\ pc'[t] \in BeforeAcquire \cup {"locked"}
    \* and these positions are entered only from one another (or, idle, by returning)
    /\ (StepOf(t) /\ pc'[t] \in BeforeAcquire \ {"idle"}) => pc[t] \in BeforeAcquire
    \* the acquire ends in one of two ways: the lock was free and is now held by t, or
    \* another thread held it, the call fails with BookingError and the lock is untouched
    /\ (StepOf(t) /\ pc[t] = "acquire") =>
          \/ /\ lock_holder[call[t].slot_lock] = 0
             /\ lock_holder'[call[t].slot_lock] = t
             /\ pc'[t] = "locked"
          \/ /\ lock_holder[call[t].slot_lock] \notin {0, t}
             /\ lock_holder' = lock_holder
             /\ pc'[t] = "idle"
             /\ result'[t] = "BookingError"
             /\ HeldLocks(t)' = {}
    \* BookingError is raised nowhere else
    /\ (StepOf(t) /\ result'[t] = "BookingError") => pc[t] = "acquire"

\* C19: lock timeout fails cleanly. If book_table cannot acquire the slot lock within
\* its timeout it does not block forever (the acquire always either succeeds or times
\* out) but fails with a BookingError, and at that point it has changed neither the
\* slot's availability nor the set of recorded bookings and holds no slot lock.
C19_TimeoutFailsCleanly ==
    /\ [](\A t \in Threads :
            /\ pc[t] \in BeforeAcquire => HeldLocks(t) = {}
            /\ pc[t] = "acquire" => ENABLED (AcquireSlotLock(t) \/ AcquireTimeout(t)))
    /\ [][\A t \in Threads : CleanBeforeAcquire(t)]_vars

\* C19 witness: one call has failed with BookingError while another thread is still
\* inside the section guarded by the slot lock it holds.
C19_Witness ==
    \E t1 \in Threads : \E t2 \in Threads :
        /\ pc[t1] = "idle"
        /\ result[t1] = "BookingError"
        /\ InCriticalSection(t2)
        /\ HeldLocks(t2) # {}
        /\ HeldLocks(t1) = {}

\* what thread t's step does to the slot locks
ReleasedOnExit(t) ==
    \* book_table is left from inside the guarded section only through the release,
    \* which frees the one lock the call acquired
    /\ (StepOf(t) /\ InCriticalSection(t) /\ pc'[t] = "idle") =>
          /\ pc[t] = "release"
          /\ HeldLocks(t) = {call[t].slot_lock}
          /\ lock_holder' = [lock_holder EXCEPT ![call[t].slot_lock] = 0]
          /\ result'[t] \in {"booked", "SlotUnavailableError"}
    \* a lock held by thread t is freed by thread t only
    /\ \A l \in DOMAIN lock_holder :
          (lock_holder[l] = t /\ lock_holder'[l] # t) => (StepOf(t) /\ pc[t] = "release")

\* C20: guaranteed release. On every exit path of book_table after a successful acquire
\* (booking recorded, SlotUnavailableError) the slot lock is released exactly once, so no
\* slot lock stays held after book_table has returned or raised; book_table never
\* releases a lock it did not acquire.
C20_GuaranteedRelease ==
    /\ [](\A t \in Threads :
            /\ ~InCriticalSection(t) => HeldLocks(t) = {}
            /\ InCriticalSection(t) => HeldLocks(t) = {call[t].slot_lock}
            /\ result[t] # "RuntimeError")
    /\ [][\A t \in Threads : ReleasedOnExit(t)]_vars

\* C20 witness: every call has returned, one with a booking and one with
\* SlotUnavailableError raised inside the guarded section, and every slot lock is free.
C20_Witness ==
    /\ AllIdle
    /\ \E t \in Threads : result[t] = "booked"
    /\ \E t \in Threads : result[t] = "SlotUnavailableError"
    /\ lock_holder # <<>>
    /\ \A l \in DOMAIN lock_holder : lock_holder[l] = 0

LastOf(seq) == seq[Len(seq)]

\* the step moved resident key k up by exactly one frequency, as _update_freq does
BumpedByOne(k) ==
    /\ Resident(strategy') = Resident(strategy)
    /\ strategy'.key_freq[k] = strategy.key_freq[k] + 1
    \* k is the newest key of the bucket of its new frequency and sits in no other bucket
    /\ strategy'.key_freq[k] \in DOMAIN strategy'.freq_keys
    /\ LastOf(strategy'.freq_keys[strategy'.key_freq[k]]) = k
    /\ Cardinality(Places(strategy', k)) = 1
    \* no other key changes frequency or its place among the other keys of its bucket
    /\ \A j \in Resident(strategy) \ {k} : strategy'.key_freq[j] = strategy.key_freq[j]
    /\ \A g \in (DOMAIN strategy.freq_keys) \cup (DOMAIN strategy'.freq_keys) :
          OrdDel(BucketOf(strategy'.freq_keys, g), k) = OrdDel(BucketOf(strategy.freq_keys, g), k)
    \* min_freq moves up by one when the key was alone in the min_freq bucket
    /\ (strategy.min_freq = strategy.key_freq[k] /\ strategy.freq_keys[strategy.key_freq[k]] = <<k>>)
          => strategy'.min_freq = strategy.min_freq + 1

\* the step is a get of a resident key
ResidentGet == lfu_op'.name = "get" /\ lfu_op'.key \in Resident(strategy)

\* C27: get of a resident key returns its stored value, increases that key's frequency
\* by exactly one, moves the key to the tail of the bucket of the new frequency, changes
\* no other key's frequency or value, and, if the vacated bucket was the min_freq bucket
\* and became empty, increases min_freq by exactly one.
C27_GetBumps ==
    [][ResidentGet =>
        /\ lfu_op'.ret = strategy.key_value[lfu_op'.key]
        /\ lfu_op'.raised = "none"
        /\ strategy'.key_value = strategy.key_value
        /\ BumpedByOne(lfu_op'.key)]_vars

\* C27 witness: a get moved the last key out of the frequency-1 bucket: min_freq is now
\* 2 and the key is the newest of the two keys at frequency 2.
C27_Witness ==
    /\ lfu_op.name = "get"
    /\ lfu_op.ret # None
    /\ Size(strategy) = 2
    /\ strategy.min_freq = 2
    /\ 2 \in DOMAIN strategy.freq_keys
    /\ Len(strategy.freq_keys[2]) = 2
    /\ LastOf(strategy.freq_keys[2]) = lfu_op.key

\* the step is a put of a resident key
ResidentPut == lfu_op'.name = "put" /\ lfu_op'.key \in Resident(strategy)

\* C28: put of an already resident key overwrites its value, bumps its frequency by
\* exactly one as get does, reports no eviction and evicts nothing, even when the tier
\* is at capacity; the set of resident keys is unchanged.
C28_PutResidentUpdates ==
    [][ResidentPut =>
        /\ lfu_op'.evicted = NoItem
        /\ lfu_op'.raised = "none"
        /\ strategy'.key_value[lfu_op'.key] = lfu_op'.value
        /\ \A j \in Resident(strategy) \ {lfu_op'.key} :
              strategy'.key_value[j] = strategy.key_value[j]
        /\ BumpedByOne(lfu_op'.key)]_vars

\* C28 witness: a full tier of capacity 2 took a put of one of its keys: nothing was
\* evicted, the key holds the value put and its frequency is above 1.
C28_Witness ==
    /\ lfu_op.name = "put"
    /\ lfu_op.evicted = NoItem
    /\ strategy.capacity = 2
    /\ Size(strategy) = 2
    /\ strategy.key_freq[lfu_op.key] >= 2
    /\ strategy.key_value[lfu_op.key] = lfu_op.value

\* the step is a put of a key that is not resident
FreshPut == lfu_op'.name = "put" /\ lfu_op'.key \notin Resident(strategy)

InsertedAtOne ==
    /\ lfu_op'.raised = "none"
    /\ lfu_op'.key \in Resident(strategy')
    /\ strategy'.key_value[lfu_op'.key] = lfu_op'.value
    /\ strategy'.key_freq[lfu_op'.key] = 1
    /\ 1 \in DOMAIN strategy'.freq_keys
    /\ LastOf(strategy'.freq_keys[1]) = lfu_op'.key
    /\ Cardinality(Places(strategy', lfu_op'.key)) = 1
    /\ strategy'.min_freq = 1

\* C29: put of a non-resident key always inserts it at frequency 1 at the tail of the
\* frequency-1 bucket and sets min_freq to 1, whatever frequency the key had during an
\* earlier residency.
C29_FreshPutAtOne == [][FreshPut => InsertedAtOne]_vars

\* the step is a delete of a resident key
ResidentDelete == lfu_op'.name = "delete" /\ lfu_op'.key \in Resident(strategy)

\* the smallest frequency among the keys of s, 0 for an empty store
SmallestFreq(s) ==
    IF Resident(s) = {} THEN 0 ELSE MinOf({s.key_freq[j] : j \in Resident(s)})

\* C30: LFU delete of a resident key removes it from the value store, the frequency map
\* and its bucket, leaves all other keys' values, frequencies and bucket order
\* unchanged, and, if the emptied bucket was the min_freq bucket, sets min_freq to the
\* smallest remaining bucket frequency, or to 0 when the store became empty.
C30_DeleteResident ==
    [][ResidentDelete =>
        /\ lfu_op'.raised = "none"
        /\ Resident(strategy') = Resident(strategy) \ {lfu_op'.key}
        /\ DOMAIN strategy'.key_freq = Resident(strategy')
        /\ ~InSomeBucket(strategy', lfu_op'.key)
        /\ \A j \in Resident(strategy') :
              /\ strategy'.key_value[j] = strategy.key_value[j]
              /\ strategy'.key_freq[j] = strategy.key_freq[j]
        /\ \A g \in DOMAIN strategy.freq_keys :
              BucketOf(strategy'.freq_keys, g) = OrdDel(strategy.freq_keys[g], lfu_op'.key)
        /\ DOMAIN strategy'.freq_keys \subseteq DOMAIN strategy.freq_keys
        /\ (/\ strategy.min_freq = strategy.key_freq[lfu_op'.key]
            /\ strategy.freq_keys[strategy.key_freq[lfu_op'.key]] = <<lfu_op'.key>>)
              => strategy'.min_freq = SmallestFreq(strategy')]_vars

\* C30 witness: a delete emptied the frequency-1 bucket while the one key left has
\* frequency 3: min_freq went from 1 to 3.
C30_Witness ==
    /\ lfu_op.name = "delete"
    /\ strategy.capacity >= 2
    /\ Size(strategy) = 1
    /\ strategy.min_freq = 3
    /\ \A k \in Resident(strategy) : strategy.key_freq[k] = 3

\* the step is a cache read / delete of a key that no tier holds
UnknownKeyStep ==
    /\ cache_op'.name \in {"read", "delete"}
    /\ HeldBy(levels, cache_op'.key) = {}

\* C23: operations on an unknown key are error-free no-ops: a cache read or delete of a
\* key resident in no tier (which runs LFU get / delete of the absent key on every
\* tier) raises nothing, returns None and leaves every tier's values, frequencies,
\* buckets, min_freq and the tier count unchanged; a delete also leaves unchanged
\* every tier that does not hold the key when others do.
C23_UnknownKeyNoOp ==
    [][/\ UnknownKeyStep => (/\ cache_op'.raised = "none"
                             /\ cache_op'.ret = None
                             /\ levels' = levels)
       /\ cache_op'.name = "delete" =>
             \A j \in 1..Len(levels) :
                 j \notin HeldBy(levels, cache_op'.key) =>
                     (Len(levels') = Len(levels) /\ levels'[j] = levels[j])]_vars

\* C23 witness: a read of a key that neither of two non-empty tiers holds returned None.
C23_Witness ==
    /\ cache_op.name = "read"
    /\ cache_op.held = {}
    /\ cache_op.ret = None
    /\ Len(levels) = 2
    /\ \A i \in 1..2 : Resident(levels[i]) # {}

\* the step is a read of a key held by the first tier
FrontHitStep == cache_op'.name = "read" /\ 1 \in HeldBy(levels, cache_op'.key)

\* C24: a read that hits in tier 0 returns the value with no mutation of the tier
\* structure: no write or promotion is invoked (no put is made), no tier's key-to-value
\* contents change, no tier is created, and no tier other than tier 0 changes at all.
C24_FrontHitNoMutation ==
    [][FrontHitStep =>
        /\ cache_op'.ret = levels[1].key_value[cache_op'.key]
        /\ cache_op'.raised = "none"
        /\ cache_op'.puts = <<>>
        /\ Len(levels') = Len(levels)
        /\ \A j \in 1..Len(levels) : levels'[j].key_value = levels[j].key_value
        /\ \A j \in 2..Len(levels) : levels'[j] = levels[j]]_vars

\* C24 witness: a read hit in the first tier while the second tier holds a copy of
\* the same key, and no put was made.
C24_Witness ==
    /\ cache_op.name = "read"
    /\ cache_op.hit = 1
    /\ cache_op.held = {1, 2}
    /\ cache_op.ret # None
    /\ cache_op.puts = <<>>
    /\ Len(levels) = 2

\* C25: read never returns a stale value: whenever read(k) returns a value it is the
\* value of the most recent write(k, .) and no delete(k) happened since that write,
\* even while older copies of k with other values remain in slower tiers; in
\* particular a read(k) directly after write(k, v) returns v.
C25_NoStaleRead ==
    [][/\ (cache_op'.name = "read" /\ cache_op'.ret # None)
             => cache_op'.ret = last_written[cache_op'.key]
       /\ (/\ cache_op.name = "write"
           /\ cache_op'.name = "read"
           /\ cache_op'.key = cache_op.key)
             => cache_op'.ret = cache_op.value]_vars

\* the keys a read would find: those held by some tier
Readable(lv) == {k \in Keys : HeldBy(lv, k) # {}}

\* the keys the step made unreadable
LostKeys == Readable(levels) \ Readable(levels')

AllTiersFull == \A i \in 1..Len(levels) : Size(levels[i]) >= levels[i].capacity

\* C26: key conservation: with a capacity configured for every tier index below
\* max_levels, a write makes at most one previously readable key unreadable, and does
\* so only if the number of tiers already equals max_levels and every tier was full
\* before the write; in every other case each key readable before is readable after.
C26_KeyConservation ==
    [][(cache_op'.name = "write" /\ Len(capacities) >= max_levels) =>
        /\ Cardinality(LostKeys) <= 1
        /\ LostKeys # {} => (Len(levels) = max_levels /\ AllTiersFull)]_vars

\* no other thread is between acquiring and releasing the lock of the slot t asks for
SlotLockFreeFor(t) ==
    \A u \in Threads \ {t} : InCriticalSection(u) => call[u].slot # call[t].slot

\* C21: independence of keys: a thread holding the lock of one slot never prevents
\* another thread from acquiring the lock of a different slot: distinct slots have
\* distinct lock objects, and a thread about to acquire slot A's lock can acquire it
\* whenever no thread holds A's own lock, whichever other slot locks are held.
C21_SlotIndependence ==
    /\ \A s1 \in DOMAIN slot_locks : \A s2 \in DOMAIN slot_locks :
          s1 # s2 => slot_locks[s1] # slot_locks[s2]
    /\ \A t \in Threads :
          (pc[t] = "acquire" /\ SlotLockFreeFor(t)) => ENABLED AcquireSlotLock(t)

\* C21 witness: a thread has just acquired the lock of one slot while another thread
\* is in the middle of the decrement under the lock of the other slot.
C21_Witness ==
    \E t1 \in Threads : \E t2 \in Threads :
        /\ pc[t1] = "locked"
        /\ pc[t2] = "dec_store"
        /\ call[t1].slot # call[t2].slot

\* C22: cache operations are serialized: under concurrent callers the number of tiers
\* never exceeds max_levels, no tier exceeds its capacity and the LFU bookkeeping of
\* every tier (of capacity >= 1) stays well-formed.
C22_SerializedOperations ==
    /\ Len(levels) <= max_levels
    /\ \A i \in 1..Len(levels) : Size(levels[i]) <= levels[i].capacity
    /\ \A i \in 1..Len(levels) : levels[i].capacity >= 1 => WellFormed(levels[i])

\* what the put the step made on tier j evicted: the item handed to the next put or,
\* after the last put, the item that ended in no tier (NoItem when tier j was not put)
VictimOf(j) ==
    IF j < Len(cache_op'.puts) THEN cache_op'.puts[j + 1].item
    ELSE IF j = Len(cache_op'.puts) THEN cache_op'.dropped
    ELSE NoItem

\* key k is resident in tier j before the step and not after it
LeavesTier(j, k) ==
    /\ k \in Resident(levels[j])
    /\ k \notin Resident(levels'[j])

\* C31: promotion does not remove the source copy: after read(k) hits in tier i > 0, k
\* is still resident in tier i unless tier i's own put during the resulting cascade
\* evicted it; a key leaves a tier only as the eviction victim of a put on that tier
\* or through delete.
C31_SourceCopyStays ==
    [][/\ (cache_op'.name = "read" /\ cache_op'.hit > 1) =>
             \/ cache_op'.key \in Resident(levels'[cache_op'.hit])
             \/ VictimOf(cache_op'.hit) # NoItem /\ VictimOf(cache_op'.hit)[1] = cache_op'.key
       /\ \A j \in 1..Len(levels) : \A k \in Keys :
             LeavesTier(j, k) =>
                 \/ cache_op'.name = "delete" /\ cache_op'.key = k
                 \/ VictimOf(j) # NoItem /\ VictimOf(j)[1] = k]_vars

\* C31 witness: a read found the key in the second tier only and wrote it to the
\* first tier; the second tier still holds its copy.
C31_Witness ==
    /\ cache_op.name = "read"
    /\ cache_op.hit = 2
    /\ cache_op.held = {2}
    /\ cache_op.raised = "none"
    /\ cache_op.key \in Resident(levels[1])
    /\ cache_op.key \in Resident(levels[2])

\* the step is a write that raised because capacities has no entry for the new tier
FailedGrowth == cache_op'.name = "write" /\ cache_op'.raised = "IndexError"

\* C32: a write that fails because no capacity is configured for the tier it must
\* create fails only after the cascade has run: the written key is already stored in
\* tier 0, the entry evicted from the last existing tier is in no tier, and no tier
\* was added, so the cache is not in its pre-write state.
C32_FailedGrowthNotAtomic ==
    [][FailedGrowth =>
        /\ cache_op'.key \in Resident(levels'[1])
        /\ levels'[1].key_value[cache_op'.key] = cache_op'.value
        /\ Len(cache_op'.puts) = Len(levels)
        /\ cache_op'.dropped # NoItem
        /\ \A i \in 1..Len(levels') : cache_op'.dropped \notin Entries(levels'[i])
        /\ Len(levels') = Len(levels)
        /\ levels' # levels]_vars

\* C35: the coarse lock that guards the slot-lock table (Venue._lock) is held only
\* while looking up or inserting a per-slot lock (inside get_slot_lock, and inside
\* set_time_slot): no thread holds it while it waits for, or holds, a per-slot lock
\* and executes the check-decrement-record section.
C35_TableLockBrief ==
    \A t \in Threads :
        /\ venue_lock = t => pc[t] \in {"in_get_slot_lock", "u_in_set"}
        /\ (pc[t] = "acquire" \/ InCriticalSection(t)) => venue_lock # t
        /\ venue_lock = t => \A i \in 1..Len(lock_holder) : lock_holder[i] # t

\* C35 witness: one thread is inside get_slot_lock, holding Venue._lock, while another
\* is in the middle of the decrement under its slot lock.
C35_Witness ==
    \E t1 \in Threads : \E t2 \in Threads :
        /\ pc[t1] = "in_get_slot_lock"
        /\ venue_lock = t1
        /\ pc[t2] = "dec_store"

\* the running calls on slot s that have decremented / recorded and not yet returned
DecrementedBy(s) ==
    {t \in Threads : /\ call[t].slot = s
                     /\ \/ pc[t] \in {"record", "in_record"}
                        \/ pc[t] = "release" /\ call[t].outcome = "booked"}
RecordedBy(s) ==
    {t \in Threads : call[t].slot = s /\ pc[t] = "release" /\ call[t].outcome = "booked"}

\* C37: a booking attempt rejected by a business rule changes nothing, and a
\* successful book_table decrements its slot's availability by exactly 1 and records
\* exactly one booking: for every slot the tables taken and the bookings recorded are
\* exactly those of the calls that returned a booking (plus the calls now between
\* their decrement and their return), a slot never registered stays unregistered
\* and has no booking.
C37_RejectedChangesNothing ==
    /\ DOMAIN availability = DOMAIN initial_tables
    /\ \A s \in DOMAIN initial_tables :
          /\ initial_tables[s] - availability[s]
                = succeeded[s] + Cardinality(DecrementedBy(s))
          /\ Booked(s) = succeeded[s] + Cardinality(RecordedBy(s))
    /\ \A s \in Slots \ DOMAIN initial_tables : Booked(s) = 0 /\ succeeded[s] = 0

\* C37 witness: every call has returned, one with a booking of the last table of a
\* slot and another with SlotUnavailableError.
C37_Witness ==
    /\ AllIdle
    /\ \E t1 \in Threads : \E t2 \in Threads :
          /\ result[t1] = "booked"
          /\ result[t2] = "SlotUnavailableError"
    /\ \E s \in DOMAIN initial_tables :
          initial_tables[s] >= 1 /\ availability[s] = 0 /\ Booked(s) = initial_tables[s]

\* every lock reference a running call has fetched is the lock the table holds for
\* the call's slot
SameLockForSlot ==
    \A t \in Threads :
        call[t].slot_lock # 0 =>
            /\ call[t].slot \in DOMAIN slot_locks
            /\ call[t].slot_lock = slot_locks[call[t].slot]

\* the step is the body of get_slot_lock / of set_time_slot run by thread t
GetSlotLockStep(t) == pc[t] = "in_get_slot_lock" /\ pc'[t] # "in_get_slot_lock"
SetTimeSlotStep(t) == pc[t] = "u_in_set" /\ pc'[t] # "u_in_set"

\* C33: one lock per key: the lock of a slot is created on first reference (by
\* set_time_slot or get_slot_lock, also for an unregistered slot), is never removed
\* or replaced, and every later get_slot_lock for the slot returns the same lock, also
\* when threads reference a new slot concurrently or set_time_slot reconfigures it.
C33_OneLockPerSlot ==
    /\ []SameLockForSlot
    /\ [][/\ \A s \in DOMAIN slot_locks :
                s \in DOMAIN slot_locks' /\ slot_locks'[s] = slot_locks[s]
          /\ Len(lock_holder') >= Len(lock_holder)
          /\ \A t \in Threads :
                /\ GetSlotLockStep(t) =>
                      /\ call[t].slot \in DOMAIN slot_locks'
                      /\ call'[t].slot_lock = slot_locks'[call[t].slot]
                /\ SetTimeSlotStep(t) =>
                      call[t].slot_dt_list[call[t].next] \in DOMAIN slot_locks']_vars

\* C33 witness: two running calls hold the same lock for slot "s2", which was not
\* registered at the start and has been configured by set_time_slot since.
C33_Witness ==
    \E t1 \in Threads : \E t2 \in Threads :
        /\ t1 # t2
        /\ call[t1].slot = "s2"
        /\ call[t2].slot = "s2"
        /\ call[t1].slot_lock # 0
        /\ call[t1].slot_lock = call[t2].slot_lock
        /\ "s2" \in DOMAIN availability

\* the step is the store of "self.availability[slot_dt] -= 1" run by thread t
DecrementStoreStep(t) == pc[t] = "dec_store" /\ pc'[t] = "record"

\* C34: the table decrement is atomic with respect to every writer of a slot's
\* availability: under any interleaving of book_table with update_time_slots on the
\* same slot the availability never becomes negative and the decrement stores the
\* current value minus one, so that no set_time_slot update is overwritten by a
\* decrement computed from the earlier value.
C34_AtomicDecrement ==
    /\ [](\A s \in DOMAIN availability : availability[s] >= 0)
    /\ [][\A t \in Threads :
             DecrementStoreStep(t) =>
                 availability'[call[t].slot] = availability[call[t].slot] - 1]_vars

\* a call's locks: the slot lock it holds, Venue._lock, BookingSystem._venues_lock
HoldsSlotLock(t)   == \E i \in 1..Len(lock_holder) : lock_holder[i] = t
WaitsSlotLock(t)   == pc[t] = "acquire"
WaitsVenuesLock(t) == pc[t] \in {"get_venue", "record", "u_get_venue", "venues_op"}
WaitsVenueLock(t)  == pc[t] \in {"get_slot_lock", "u_set"}

\* a thread that waits for or takes a slot lock, or Venue._lock, holds no other lock;
\* _venues_lock is the only lock taken while another one (a slot lock) is held, and
\* nothing is taken while it is held
LockOrder ==
    \A t \in Threads :
        /\ WaitsSlotLock(t) => (~HoldsSlotLock(t) /\ venues_lock # t /\ venue_lock # t)
        /\ WaitsVenueLock(t) => (~HoldsSlotLock(t) /\ venues_lock # t /\ venue_lock # t)
        /\ WaitsVenuesLock(t) => (venues_lock # t /\ venue_lock # t)
        /\ venues_lock = t =>
              pc[t] \in {"in_get_venue", "in_record", "u_in_get_venue", "in_venues_op"}
        /\ venue_lock = t => pc[t] \in {"in_get_slot_lock", "u_in_set"}
        /\ pc[t] = "idle" => (~HoldsSlotLock(t) /\ venues_lock # t /\ venue_lock # t)

\* C36: no deadlock: for a set of threads concurrently running book_table,
\* update_time_slots, register_venue, search_venues and list_bookings (each thread a
\* bounded number of calls), under fair scheduling every call eventually returns or
\* raises; locks are only ever nested in the order slot lock then _venues_lock, never
\* the reverse.
C36_NoDeadlock ==
    /\ []LockOrder
    /\ \A t \in Threads : (pc[t] # "idle") ~> (pc[t] = "idle")

\* C36 witness: a thread holds a slot lock and waits for _venues_lock to record its
\* booking while another thread is inside a with-_venues_lock block.
C36_Witness ==
    \E t1 \in Threads : \E t2 \in Threads :
        /\ pc[t1] = "record"
        /\ HoldsSlotLock(t1)
        /\ venues_lock = t2
        /\ pc[t2] \in {"u_in_get_venue", "in_venues_op"}

\* the arguments of the update_time_slots call thread t runs pass every validation
ValidUpdate(t) ==
    /\ call[t].tables_each >= 0
    /\ call[t].venue_known
    /\ \A i \in 1..Len(call[t].slot_dt_list) : call[t].slot_dt_list[i] # "far"

UpdateFailures == {"ValidationError: tables_each", "ValidationError: window",
                   "ValidationError: tables", "NotFoundError"}

\* C40: update_time_slots is all-or-nothing with respect to validation: if tables_each
\* is negative, the venue is unknown or any slot of the list is outside the booking
\* window, the call fails and has changed no slot's availability, not even for valid
\* slots that precede the invalid one: availability is written only by the decrement
\* of a booking and by set_time_slot calls of an update whose arguments are all valid.
C40_UpdateAllOrNothing ==
    [][/\ \A t \in Threads :
             /\ SetTimeSlotStep(t) => ValidUpdate(t)
             /\ (/\ call[t].op = "update_time_slots"
                 /\ pc'[t] = "idle"
                 /\ ~ValidUpdate(t)) => result'[t] \in UpdateFailures
             /\ (call[t].op = "update_time_slots" /\ result'[t] \in UpdateFailures)
                   => availability' = availability
       /\ availability' # availability =>
             \E t \in Threads : SetTimeSlotStep(t) \/ DecrementStoreStep(t)
       /\ "far" \notin DOMAIN availability']_vars

\* C40 witness: an update_time_slots call whose list has a valid slot before one
\* outside the window has failed, and the availability is as configured at the start.
C40_Witness ==
    /\ \E t \in Threads : result[t] = "ValidationError: window"
    /\ availability = initial_tables
    /\ updates = MaxUpdates

\* the stored tasks reached from x by following parent_id links at most n times
RECURSIVE ChainFrom(_, _, _)
ChainFrom(ts, x, n) ==
    IF n = 0 \/ ts[x].parent_id = NoTask \/ ts[x].parent_id \notin DOMAIN ts
    THEN {}
    ELSE {ts[x].parent_id} \cup ChainFrom(ts, ts[x].parent_id, n - 1)

Ancestors(ts, x)   == ChainFrom(ts, x, Cardinality(DOMAIN ts))
Descendants(ts, t) == {x \in DOMAIN ts : t \in Ancestors(ts, x)}
Acyclic(ts)        == \A x \in DOMAIN ts : x \notin Ancestors(ts, x)

\* the step is a move_task call that was asked to put a stored task under a stored one
MoveStep == /\ task_op'.name = "move_task"
            /\ task_op'.task_id \in DOMAIN tasks
            /\ task_op'.new_parent_id \in DOMAIN tasks
            /\ current_user # None
            /\ task_op' # task_op \/ tasks' # tasks

\* C38: the task hierarchy stays acyclic: after any sequence of create_task,
\* create_subtask, create_story, move_task and delete_task, following parent_id links
\* from a task never revisits a task; move_task rejects, without changing any task, a
\* move of a task under itself or under one of its descendants, and its ancestor walk
\* always terminates.
C38_HierarchyAcyclic ==
    /\ [](Acyclic(tasks) /\ task_op.walk # "diverges")
    /\ [][(/\ MoveStep
           /\ \/ task_op'.new_parent_id = task_op'.task_id
              \/ task_op'.new_parent_id \in Descendants(tasks, task_op'.task_id))
          => (/\ ~task_op'.ok
              /\ task_op'.walk = "found"
              /\ tasks' = tasks)]_vars

\* C38 witness: move_task has just rejected putting a task under its grandchild.
C38_Witness ==
    /\ task_op.name = "move_task"
    /\ ~task_op.ok
    /\ task_op.walk = "found"
    /\ task_op.new_parent_id \in DOMAIN tasks
    /\ tasks[task_op.new_parent_id].parent_id \in DOMAIN tasks
    /\ tasks[task_op.new_parent_id].parent_id # task_op.task_id
    /\ tasks[tasks[task_op.new_parent_id].parent_id].parent_id = task_op.task_id

\* no stored task has the id of a deleted task as its parent_id
NoDeletedParent ==
    \A x \in DOMAIN tasks : tasks[x].parent_id = NoTask \/ tasks[x].parent_id \in DOMAIN tasks

\* C39: delete_task(t) deletes t together with all subtasks and tasks within it:
\* afterwards no stored task is a descendant of t at any depth, i.e. no remaining
\* task's parent_id chain leads to a deleted task.
C39_DeleteRemovesDescendants ==
    /\ []NoDeletedParent
    /\ [][(task_op'.name = "delete_task" /\ task_op'.ok /\ tasks' # tasks)
          => (Descendants(tasks, task_op'.task_id) \cap DOMAIN tasks' = {})]_vars

====
